---- MODULE Spec2Model ----
(***************************************************************************)
(* Model of the dynamic-pricing backend (src/start-backend.sh, the part    *)
(* after line 54 is server.js): the Shopify cursor pagination loop         *)
(* fetchShopifyCustomersPaginated, the tier rule matcher                   *)
(* applyRuleConfigToCustomer and the handler of POST                       *)
(* /api/reactivation/batch that composes them.                             *)
(***************************************************************************)
EXTENDS Integers, Sequences, FiniteSets, TLC

VARIABLES
    upstream,          \* Shopify's customer list, in upstream order
    limitTotal,        \* argument of fetchShopifyCustomersPaginated
    allCustomers,      \* the accumulator
    pageInfo,          \* cursor held by the loop (Null when absent)
    done,              \* loop flag
    fpc,               \* position of the fetch: idle, loop, await, returned, thrown
    fetchResult,       \* value the fetch resolved with (only when fpc = "returned")
    shopifyRequests,   \* log of the GET requests issued, oldest first
    shopifyResponses,  \* log of the responses received: [ok, n, link]
    ruleConfig,        \* argument of applyRuleConfigToCustomer
    ruleCustomer,      \* argument of applyRuleConfigToCustomer: a CustomerMetrics
    rec,               \* its return value
    rpc,               \* position of the matcher call: idle, call, done
    shopifyConforms,   \* TRUE when the store answers every request the documented way
    env,               \* process.env: which credentials are configured
    body,              \* req.body of POST /api/reactivation/batch
    bpc,               \* position of the batch handler
    totalFetched,      \* customersWithMetrics.length
    recommendations,   \* the handler's recommendations array
    mailerRequests,    \* log of the requests sent to MailerLite, oldest first
    mailerResponses,   \* log of how each of them ended
    groupId,           \* groupData.data?.id
    addedCount,        \* subscribers counted as added
    res,               \* the HTTP response of the handler
    rawCustomer,       \* argument of the metrics reducer: a raw Shopify customer
    metrics,           \* its return value: a CustomerMetrics
    mpc,               \* position of the reducer call: idle, call, done
    route,             \* path of the inbound request
    reqMethod,         \* method of the inbound request
    client,            \* the dashboard that issued it, "none" for any other caller
    hpc,               \* position of the handler of the other routes
    uniqueCodes,       \* POST /api/shopify/discounts: code -> percentage, in key order
    createdCodes,      \* POST /api/shopify/discounts: codes created
    failedCodes,       \* POST /api/shopify/discounts: codes that failed
    iter,              \* index of the loop iteration the handler is in
    calls,             \* log of the awaited calls of those handlers, oldest first
    callResults        \* log of how each of them settled

fetchVars == <<upstream, limitTotal, allCustomers, pageInfo, done, fpc,
               fetchResult, shopifyRequests, shopifyResponses>>

ruleVars == <<ruleConfig, ruleCustomer, rec, rpc>>

batchVars == <<env, body, bpc, totalFetched, recommendations, mailerRequests,
               mailerResponses, groupId, addedCount, res>>

metricVars == <<rawCustomer, metrics, mpc>>

request == <<route, reqMethod, client>>

apiVars == <<request, hpc, uniqueCodes, createdCodes, failedCodes, iter, calls, callResults>>

vars == <<fetchVars, ruleVars, shopifyConforms, batchVars, metricVars, apiVars>>

-----------------------------------------------------------------------------
(* The router *)

\* The routes in the order server.js registers them.
Registration(method, path, handler) == [method |-> method, path |-> path, handler |-> handler]

Registrations ==
    << Registration("GET", "/api/health", "health"),
       Registration("GET", "/api/shopify/customers", "customers"),
       Registration("POST", "/api/ai/analyze", "analyze"),
       Registration("POST", "/api/glp1/plan", "plan"),
       Registration("POST", "/api/shopify/discounts", "discounts"),
       Registration("POST", "/api/mailerlite/campaign", "campaign"),
       Registration("POST", "/api/glp1/plan", "planner"),
       Registration("POST", "/api/reactivation/batch", "batch") >>

Matching(method, path) ==
    {i \in DOMAIN Registrations :
        Registrations[i].method = method /\ Registrations[i].path = path}

\* A router that runs the handler registered last for the path.
Dispatch_LastWins(method, path) ==
    LET idx == Matching(method, path)
    IN  IF idx = {} THEN "none"
        ELSE Registrations[CHOOSE i \in idx : \A j \in idx : i >= j].handler

\* The router walks its stack in order and runs the first handler whose
\* method and path match; no handler of server.js passes the request on, so
\* that handler is the one that answers ("none": express answers 404).
Dispatch(method, path) ==
    LET idx == Matching(method, path)
    IN  IF idx = {} THEN "none"
        ELSE Registrations[CHOOSE i \in idx : \A j \in idx : i <= j].handler

\* The request is one the router hands to the named handler.
Routed(handler) == Dispatch(reqMethod, route) = handler

-----------------------------------------------------------------------------
(* Bounds of the model *)

MaxPages == 2          \* limit_total and the store size reach MaxPages full pages
Slack == 1             \* ... give or take Slack records around each page boundary
MaxRequests == MaxPages + 1   \* requests one fetch may issue before the model stops it

(* Program constants *)

PageCap == 250         \* Math.min(250, ...) : Shopify's page-size ceiling

Null == -1             \* JS null / undefined for a cursor

Min(a, b) == IF a <= b THEN a ELSE b

Max(a, b) == IF a >= b THEN a ELSE b

-----------------------------------------------------------------------------
(* Raw customers as Shopify returns them.  A field that the JSON lacks is   *)
(* Null.                                                                    *)

RawId(i) == [id |-> i]

BoundaryValues ==
    {v \in {p * PageCap + d : p \in 0..MaxPages, d \in (0 - Slack)..Slack} : v >= 0}

-----------------------------------------------------------------------------
(* The Link header.  present = FALSE is a response without the header; an   *)
(* entry is one comma-separated link with its rel and the page_info of its  *)
(* URL (Null when the URL has no page_info parameter).                      *)

NoLink == [present |-> FALSE, links |-> <<>>]

LinkHeader(entries) == [present |-> TRUE, links |-> entries]

LinkEntry(rel, token) == [rel |-> rel, page_info |-> token]

\* links.find((l) => l.includes('rel="next"'))
FindNext(links) ==
    LET idx == {i \in DOMAIN links : links[i].rel = "next"}
    IN  IF idx = {} THEN 0 ELSE CHOOSE i \in idx : \A j \in idx : i <= j

\* A Link-header block that forgets to end the loop when no rel="next" entry
\* is found.
ParseLink_NoNextGoesOn(header, pi, d) ==
    IF ~header.present THEN [pageInfo |-> pi, done |-> TRUE]
    ELSE LET i == FindNext(header.links)
         IN  IF i = 0 THEN [pageInfo |-> pi, done |-> d]
             ELSE LET m == header.links[i].page_info
                  IN  [pageInfo |-> m, done |-> IF m = Null THEN TRUE ELSE d]

\* The Link-header block at the end of a loop iteration: the cursor and the
\* done flag it leaves, given the ones it found.  The loop ends on no header,
\* no rel="next" entry, or a next entry whose page_info does not parse.
ParseLink(header, pi, d) ==
    IF ~header.present THEN [pageInfo |-> pi, done |-> TRUE]
    ELSE LET i == FindNext(header.links)
         IN  IF i = 0 THEN [pageInfo |-> pi, done |-> TRUE]
             ELSE LET m == header.links[i].page_info
                  IN  [pageInfo |-> m, done |-> IF m = Null THEN TRUE ELSE d]

\* Loop tests with the comparison off by one, either way.
LoopGuard_StopsEarly(d, len, limit) == ~d /\ len + 1 < limit

LoopGuard_Leq(d, len, limit) == ~d /\ len <= limit

\* while (!done && allCustomers.length < limitTotal)
LoopGuard(d, len, limit) == ~d /\ len < limit

\* A page size without the ceiling of 250.
PerPage_Uncapped(limit, len) == limit - len

\* Math.min(250, limitTotal - allCustomers.length)
PerPage(limit, len) == Min(PageCap, limit - len)

\* A return of the accumulator as it is, without the trim.
Slice_NoTrim(s, n) == s

\* allCustomers.slice(0, limitTotal)
Slice(s, n) == SubSeq(s, 1, Min(Len(s), n))

-----------------------------------------------------------------------------
(* Shopify.  A cursor token is the offset of the first record of the page   *)
(* it stands for.                                                           *)

Offset(token) == IF token = Null THEN 0 ELSE token

Remaining(off) == Max(0, Len(upstream) - off)

HonestCount(req) == Min(req.limit, Remaining(Offset(req.page_info)))

HonestLink(req) ==
    LET off == Offset(req.page_info)
        k == HonestCount(req)
        prev == IF off > 0 THEN <<LinkEntry("previous", Max(0, off - req.limit))>> ELSE <<>>
        next == IF off + k < Len(upstream) THEN <<LinkEntry("next", off + k)>> ELSE <<>>
    IN  IF prev \o next = <<>> THEN NoLink ELSE LinkHeader(prev \o next)

\* The record counts an upstream may answer a request with: the honest one,
\* an empty page, and a page one record over the requested limit.
CountChoices(req) ==
    IF shopifyConforms THEN {HonestCount(req)}
    ELSE {HonestCount(req), 0, Min(req.limit + 1, Remaining(Offset(req.page_info)))}

LinkChoices(req, k) ==
    LET off == Offset(req.page_info)
    IN  IF shopifyConforms THEN {HonestLink(req)} ELSE
        { HonestLink(req),
          NoLink,
          LinkHeader(<<LinkEntry("previous", off)>>),
          LinkHeader(<<LinkEntry("next", Null)>>),
          LinkHeader(<<LinkEntry("next", off + k)>>),
          LinkHeader(<<LinkEntry("previous", off), LinkEntry("next", off + k)>>) }

Page(off, k) == SubSeq(upstream, off + 1, off + k)

-----------------------------------------------------------------------------
(* fetchShopifyCustomersPaginated *)

\* const allCustomers = []; let pageInfo = null; let done = false;
FetchCall(limit) ==
    /\ limitTotal' = limit
    /\ allCustomers' = <<>>
    /\ pageInfo' = Null
    /\ done' = FALSE
    /\ fpc' = "loop"
    /\ fetchResult' = <<>>
    /\ shopifyRequests' = <<>>
    /\ shopifyResponses' = <<>>

\* Loop test passes: build the URL and issue the GET.
FetchIssue ==
    /\ fpc = "loop"
    /\ LoopGuard(done, Len(allCustomers), limitTotal)
    /\ Len(shopifyRequests) < MaxRequests
    /\ shopifyRequests' = Append(shopifyRequests,
            [limit |-> PerPage(limitTotal, Len(allCustomers)), page_info |-> pageInfo])
    /\ fpc' = "await"
    /\ UNCHANGED <<upstream, limitTotal, allCustomers, pageInfo, done, fetchResult,
                   shopifyResponses>>
    /\ UNCHANGED <<ruleVars, shopifyConforms, metricVars, apiVars, batchVars>>

\* Loop test fails: return allCustomers.slice(0, limitTotal).
FetchReturn ==
    /\ fpc = "loop"
    /\ ~LoopGuard(done, Len(allCustomers), limitTotal)
    /\ fetchResult' = Slice(allCustomers, limitTotal)
    /\ fpc' = "returned"
    /\ UNCHANGED <<upstream, limitTotal, allCustomers, pageInfo, done, shopifyRequests,
                   shopifyResponses>>
    /\ UNCHANGED <<ruleVars, shopifyConforms, metricVars, apiVars, batchVars>>

\* A non-2xx response that ends the loop and lets the fetch return what it has.
FetchResponseNotOk_Partial ==
    /\ fpc = "await"
    /\ shopifyResponses' = Append(shopifyResponses, [ok |-> FALSE, n |-> 0, link |-> NoLink])
    /\ done' = TRUE
    /\ fpc' = "loop"
    /\ UNCHANGED <<upstream, limitTotal, allCustomers, pageInfo, fetchResult,
                   shopifyRequests>>
    /\ UNCHANGED <<ruleVars, shopifyConforms, metricVars, apiVars, batchVars>>

\* if (!response.ok) throw new Error(...)
FetchResponseNotOk ==
    /\ fpc = "await"
    /\ shopifyResponses' = Append(shopifyResponses, [ok |-> FALSE, n |-> 0, link |-> NoLink])
    /\ fpc' = "thrown"
    /\ UNCHANGED <<upstream, limitTotal, allCustomers, pageInfo, done, fetchResult,
                   shopifyRequests>>
    /\ UNCHANGED <<ruleVars, shopifyConforms, metricVars, apiVars, batchVars>>

\* A 2xx response: push the page, then parse the Link header.
FetchResponseOk ==
    /\ fpc = "await"
    /\ LET req == shopifyRequests[Len(shopifyRequests)]
       IN  \E k \in CountChoices(req) : \E link \in LinkChoices(req, k) :
             LET after == ParseLink(link, pageInfo, done)
             IN  /\ allCustomers' = allCustomers \o Page(Offset(req.page_info), k)
                 /\ pageInfo' = after.pageInfo
                 /\ done' = after.done
                 /\ shopifyResponses' =
                        Append(shopifyResponses, [ok |-> TRUE, n |-> k, link |-> link])
    /\ fpc' = "loop"
    /\ UNCHANGED <<upstream, limitTotal, fetchResult, shopifyRequests>>
    /\ UNCHANGED <<ruleVars, shopifyConforms, metricVars, apiVars, batchVars>>

-----------------------------------------------------------------------------
(* JavaScript values.  An optional field of a JSON object is a sequence: <<>> *)
(* when the field is missing (undefined), <<v>> when it holds v.  A string   *)
(* is the sequence of its characters.  Numbers are integers, with NaN and    *)
(* Infinity as two values outside the range of every number of the model.    *)

Infinity == 1000000000

NaN == -1000000000

IsSet(f) == f # <<>>

\* typeof f === 'number' ? f : dflt
NumberOr(f, dflt) == IF IsSet(f) THEN f[1] ELSE dflt

\* f || dflt for a number: 0 and NaN are falsy
NumOrDefault(f, dflt) == IF IsSet(f) /\ f[1] # 0 /\ f[1] # NaN THEN f[1] ELSE dflt

\* f || dflt for a string: the empty string is falsy
StrOrDefault(f, dflt) == IF IsSet(f) /\ f[1] # <<>> THEN f[1] ELSE dflt

\* Boolean(f) for an optional string
TruthyStr(f) == IF IsSet(f) THEN f[1] # <<>> ELSE FALSE

\* a >= b and a <= b on numbers: every comparison with NaN is false
Gte(a, b) == a # NaN /\ b # NaN /\ a >= b

Lte(a, b) == a # NaN /\ b # NaN /\ a <= b

Gt(a, b) == a # NaN /\ b # NaN /\ a > b

LowerToUpper ==
    [a |-> "A", b |-> "B", c |-> "C", d |-> "D", e |-> "E", f |-> "F", g |-> "G",
     h |-> "H", i |-> "I", j |-> "J", k |-> "K", l |-> "L", m |-> "M", n |-> "N",
     o |-> "O", p |-> "P", q |-> "Q", r |-> "R", s |-> "S", t |-> "T", u |-> "U",
     v |-> "V", w |-> "W", x |-> "X", y |-> "Y", z |-> "Z"]

\* String.prototype.toUpperCase
ToUpperCase(str) ==
    [i \in DOMAIN str |->
        IF str[i] \in DOMAIN LowerToUpper THEN LowerToUpper[str[i]] ELSE str[i]]

DigitChar(dg) == <<"0", "1", "2", "3", "4", "5", "6", "7", "8", "9">>[dg + 1]

RECURSIVE Digits(_)
Digits(n) == IF n < 10 THEN <<DigitChar(n)>> ELSE Digits(n \div 10) \o <<DigitChar(n % 10)>>

\* `${n}` for an integer n
NumToStr(n) == IF n < 0 THEN <<"-">> \o Digits(0 - n) ELSE Digits(n)

-----------------------------------------------------------------------------
(* applyRuleConfigToCustomer.  A tier is a record of optional fields; a rule *)
(* config is [tiers: sequence of tiers, default: optional tier].  The        *)
(* recommendation keeps the fields the callers read; messagingAngle and      *)
(* expectedValue are built like rationale and are left out.                  *)

NoRec == [none |-> TRUE]

WINBACK == <<"W", "I", "N", "B", "A", "C", "K">>

\* A match test whose upper bounds are exclusive.
TierMatches_ExclusiveMax(customer, tier) ==
    LET minTotalSpent == NumberOr(tier.minTotalSpent, 0)
        maxTotalSpent == NumberOr(tier.maxTotalSpent, Infinity)
        minDays == NumberOr(tier.minDaysSinceLastOrder, 0)
        maxDays == NumberOr(tier.maxDaysSinceLastOrder, Infinity)
    IN  /\ Gte(customer.totalSpent, minTotalSpent)
        /\ customer.totalSpent # NaN /\ customer.totalSpent < maxTotalSpent
        /\ Gte(customer.daysSinceLastOrder, minDays)
        /\ customer.daysSinceLastOrder # NaN /\ customer.daysSinceLastOrder < maxDays

\* matchesTotal && matchesDays, with the four bounds defaulted
TierMatches(customer, tier) ==
    LET minTotalSpent == NumberOr(tier.minTotalSpent, 0)
        maxTotalSpent == NumberOr(tier.maxTotalSpent, Infinity)
        minDays == NumberOr(tier.minDaysSinceLastOrder, 0)
        maxDays == NumberOr(tier.maxDaysSinceLastOrder, Infinity)
        matchesTotal == Gte(customer.totalSpent, minTotalSpent)
                            /\ Lte(customer.totalSpent, maxTotalSpent)
        matchesDays == Gte(customer.daysSinceLastOrder, minDays)
                            /\ Lte(customer.daysSinceLastOrder, maxDays)
    IN  matchesTotal /\ matchesDays

\* A synthesized code that is not uppercased.
TierDiscountCode_NoUpper(tier) ==
    LET discountPercent == NumOrDefault(tier.discountPercent, 0)
        prefix == StrOrDefault(tier.discountCodePrefix, WINBACK)
    IN  StrOrDefault(tier.discountCode, prefix \o NumToStr(discountPercent))

\* tier.discountCode || `${prefix}${discountPercent}`.toUpperCase()
TierDiscountCode(tier) ==
    LET discountPercent == NumOrDefault(tier.discountPercent, 0)
        prefix == StrOrDefault(tier.discountCodePrefix, WINBACK)
    IN  StrOrDefault(tier.discountCode, ToUpperCase(prefix \o NumToStr(discountPercent)))

\* The object returned inside the loop for the tier that matched.
TierRecommendation(customer, tier) ==
    [customerId |-> customer.id,
     email |-> customer.email,
     discountPercent |-> NumOrDefault(tier.discountPercent, 0),
     discountCode |-> TierDiscountCode(tier),
     rationale |-> IF IsSet(tier.rationale) THEN tier.rationale[1] ELSE "Rule match"]

\* defaultTier.discountCode || `${prefix}${discountPercent}`.toUpperCase()
DefaultDiscountCode(defaultTier) ==
    LET discountPercent == NumOrDefault(defaultTier.discountPercent, 0)
        prefix == StrOrDefault(defaultTier.discountCodePrefix, WINBACK)
    IN  StrOrDefault(defaultTier.discountCode,
                     ToUpperCase(prefix \o NumToStr(discountPercent)))

\* The object returned after the loop from ruleConfig.default.
DefaultRecommendation(customer, defaultTier) ==
    [customerId |-> customer.id,
     email |-> customer.email,
     discountPercent |-> NumOrDefault(defaultTier.discountPercent, 0),
     discountCode |-> DefaultDiscountCode(defaultTier),
     rationale |-> IF IsSet(defaultTier.rationale) THEN defaultTier.rationale[1]
                   ELSE "Default rule applied."]

\* A loop that keeps the last matching tier instead of returning at the first.
FirstMatch_LastWins(customer, tiers) ==
    LET idx == {i \in DOMAIN tiers : TierMatches(customer, tiers[i])}
    IN  IF idx = {} THEN 0 ELSE CHOOSE i \in idx : \A j \in idx : i >= j

\* for (const tier of tiers) { if (matchesTotal && matchesDays) return ... }:
\* the index of the tier the loop returns from, 0 when it runs to its end.
FirstMatch(customer, tiers) ==
    LET idx == {i \in DOMAIN tiers : TierMatches(customer, tiers[i])}
    IN  IF idx = {} THEN 0 ELSE CHOOSE i \in idx : \A j \in idx : i <= j

\* A matcher that applies the default tier only when its bounds hold.
applyRuleConfigToCustomer_DefaultChecked(customer, cfg) ==
    LET tiers == cfg.tiers
        i == FirstMatch(customer, tiers)
    IN  IF i # 0 THEN TierRecommendation(customer, tiers[i])
        ELSE IF IsSet(cfg.default) /\ TierMatches(customer, cfg.default[1])
             THEN DefaultRecommendation(customer, cfg.default[1])
        ELSE NoRec

applyRuleConfigToCustomer(customer, cfg) ==
    LET tiers == cfg.tiers
        i == FirstMatch(customer, tiers)
    IN  IF i # 0 THEN TierRecommendation(customer, tiers[i])
        ELSE IF IsSet(cfg.default) THEN DefaultRecommendation(customer, cfg.default[1])
        ELSE NoRec

-----------------------------------------------------------------------------
(* Inputs of the matcher: tiers, rule configs and customer metrics.          *)

MaxTiers == 2          \* tiers in a rule config

Str_SAVE == <<"S", "A", "V", "E">>

Str_save == <<"s", "a", "v", "e">>

Str_vip25 == <<"v", "i", "p", "2", "5">>

Tier(minS, maxS, minD, maxD, pct, prefix, code, rationale) ==
    [minTotalSpent |-> minS, maxTotalSpent |-> maxS,
     minDaysSinceLastOrder |-> minD, maxDaysSinceLastOrder |-> maxD,
     discountPercent |-> pct, discountCodePrefix |-> prefix, discountCode |-> code,
     rationale |-> rationale]

TierPool ==
    { Tier(<<0>>, <<100>>, <<>>, <<>>, <<10>>, <<>>, <<>>, <<>>),
      Tier(<<50>>, <<150>>, <<>>, <<>>, <<20>>, <<>>, <<>>, <<>>),
      Tier(<<>>, <<>>, <<60>>, <<999>>, <<20>>, <<WINBACK>>, <<>>, <<>>),
      Tier(<<>>, <<>>, <<>>, <<30>>, <<15>>, <<Str_save>>, <<>>, <<>>),
      Tier(<<100>>, <<>>, <<>>, <<>>, <<15>>, <<Str_SAVE>>, <<>>, <<"vip">>),
      Tier(<<>>, <<75>>, <<30>>, <<60>>, <<>>, <<>>, <<>>, <<>>),
      Tier(<<>>, <<>>, <<>>, <<>>, <<25>>, <<Str_SAVE>>, <<Str_vip25>>, <<>>),
      Tier(<<75>>, <<75>>, <<0>>, <<0>>, <<0 - 5>>, <<>>, <<<<>>>>, <<>>),
      Tier(<<>>, <<>>, <<0 - 1>>, <<0>>, <<0>>, <<<<>>>>, <<>>, <<>>),
      Tier(<<>>, <<>>, <<>>, <<>>, <<50>>, <<>>, <<>>, <<>>) }

\* A default tier carries bounds too; the matcher has no use for them.
DefaultPool ==
    { Tier(<<1000>>, <<1000>>, <<1000>>, <<1000>>, <<30>>, <<Str_save>>, <<>>, <<>>),
      Tier(<<>>, <<>>, <<>>, <<>>, <<>>, <<>>, <<Str_vip25>>, <<"thanks">>) }

SeqsUpTo(S, n) == UNION {[1..k -> S] : k \in 0..n}

RuleConfigs ==
    {[tiers |-> ts, default |-> df] :
        ts \in SeqsUpTo(TierPool, MaxTiers), df \in {<<>>} \cup {<<t>> : t \in DefaultPool}}

Email_a == <<"a", "@", "x">>

Metrics(id, email, spent, days) ==
    [id |-> id, email |-> email, totalSpent |-> spent, daysSinceLastOrder |-> days]

CustomerPool ==
    {Metrics(1, <<Email_a>>, sp, dy) :
        sp \in {0, 50, 75, 100, 150, 151, NaN}, dy \in {0 - 1, 0, 30, 31, 60, 999, 1000}}

-----------------------------------------------------------------------------
(* The metrics reducer: the map callback of the batch handler.  Instants are *)
(* whole seconds (Shopify's timestamps carry no fraction of a second, so the *)
(* floor of the day count is the one the millisecond arithmetic gives).  A   *)
(* timestamp string that does not parse is the instant NaN.                  *)

DaySeconds == 86400

NoTimestampDays == 999

\* Date.now()
Now == 1000 * DaySeconds

Raw(id, email, orders, spent, updated, created) ==
    [id |-> id, email |-> email, orders_count |-> orders, total_spent |-> spent,
     updated_at |-> updated, created_at |-> created]

IsDigit(ch) == ch \in {"0", "1", "2", "3", "4", "5", "6", "7", "8", "9"}

DigitValue(ch) == CHOOSE dg \in 0..9 : DigitChar(dg) = ch

\* Length of the run of digits a string starts with.
LeadingDigits(str) ==
    CHOOSE n \in 0..Len(str) :
        /\ \A i \in 1..n : IsDigit(str[i])
        /\ n < Len(str) => ~IsDigit(str[n + 1])

RECURSIVE DigitsValue(_)
DigitsValue(str) ==
    IF str = <<>> THEN 0
    ELSE 10 * DigitsValue(SubSeq(str, 1, Len(str) - 1)) + DigitValue(str[Len(str)])

\* parseFloat on the amounts of the model: digits, then possibly "." and a
\* fraction of zeros ("150.00"); NaN when the string starts with no digit.
ParseFloat(str) ==
    LET n == LeadingDigits(str)
    IN  IF n = 0 THEN NaN ELSE DigitsValue(SubSeq(str, 1, n))

Str_0_00 == <<"0", ".", "0", "0">>

\* A reducer that reads created_at first.
DaysSince_CreatedFirst(updated, created, now) ==
    LET lastOrderDateRaw == IF IsSet(created) THEN created ELSE updated
    IN  IF ~IsSet(lastOrderDateRaw) THEN NoTimestampDays
        ELSE IF lastOrderDateRaw[1] = NaN THEN NaN
        ELSE (now - lastOrderDateRaw[1]) \div DaySeconds

\* A day count clamped at zero.
DaysSince_Clamped(updated, created, now) ==
    LET lastOrderDateRaw == IF IsSet(updated) THEN updated ELSE created
    IN  IF ~IsSet(lastOrderDateRaw) THEN NoTimestampDays
        ELSE IF lastOrderDateRaw[1] = NaN THEN NaN
        ELSE IF lastOrderDateRaw[1] > now THEN 0
        ELSE (now - lastOrderDateRaw[1]) \div DaySeconds

\* Math.floor((Date.now() - lastOrderDate.getTime()) / one day), or 999
DaysSince(updated, created, now) ==
    LET lastOrderDateRaw == IF IsSet(updated) THEN updated ELSE created
    IN  IF ~IsSet(lastOrderDateRaw) THEN NoTimestampDays
        ELSE IF lastOrderDateRaw[1] = NaN THEN NaN
        ELSE (now - lastOrderDateRaw[1]) \div DaySeconds

\* The division without its guard.
AverageOrderValue_Unguarded(totalSpent, totalOrders) ==
    [num |-> totalSpent, den |-> totalOrders]

\* averageOrderValue as the fraction num / den
AverageOrderValue(totalSpent, totalOrders) ==
    IF Gt(totalOrders, 0) THEN [num |-> totalSpent, den |-> totalOrders]
    ELSE [num |-> 0, den |-> 1]

\* Number(customer.orders_count || 0): a count that is a string with no
\* numeric reading is held as NaN in the raw record (truthy, converts to NaN)
OrdersCount(f) == IF IsSet(f) /\ f[1] # 0 THEN f[1] ELSE 0

ToMetrics(raw, now) ==
    LET totalOrders == OrdersCount(raw.orders_count)
        totalSpent == ParseFloat(StrOrDefault(raw.total_spent, Str_0_00))
    IN  [id |-> raw.id,
         email |-> raw.email,
         totalOrders |-> totalOrders,
         totalSpent |-> totalSpent,
         averageOrderValue |-> AverageOrderValue(totalSpent, totalOrders),
         daysSinceLastOrder |-> DaysSince(raw.updated_at, raw.created_at, now)]

-----------------------------------------------------------------------------
(* POST /api/reactivation/batch *)

DefaultMaxCustomers == 7000

DefaultMaxBatchCustomers == 10000

SampleSize == 20

NoResponse == [status |-> 0]

\* A filter that forgets the email test.
KeepRecommendation_AnyEmail(r) == r # NoRec /\ Gt(r.discountPercent, 0)

\* rec && rec.discountPercent > 0 && rec.email
KeepRecommendation(r) ==
    r # NoRec /\ Gt(r.discountPercent, 0) /\ TruthyStr(r.email)

\* Math.min(Number(maxCustomers || 7000), Number(process.env.MAX_BATCH_CUSTOMERS || 10000))
BatchLimit(b, e) ==
    Min(NumOrDefault(b.maxCustomers, DefaultMaxCustomers),
        NumOrDefault(e.MAX_BATCH_CUSTOMERS, DefaultMaxBatchCustomers))

\* The map to metrics and the for loop that collects the recommendations.
BatchRecommendations(rawCustomers, cfg, now) ==
    LET customersWithMetrics == [i \in DOMAIN rawCustomers |-> ToMetrics(rawCustomers[i], now)]
        recs == [i \in DOMAIN rawCustomers |->
                    applyRuleConfigToCustomer(customersWithMetrics[i], cfg)]
    IN  SelectSeq(recs, KeepRecommendation)

Respond(r) ==
    /\ res' = r
    /\ bpc' = "responded"

\* res.json({ success: true, ... })
Success(fetched, recs, mailerLiteResult) ==
    [status |-> 200,
     totalCustomersFetched |-> fetched,
     totalRecommendations |-> Len(recs),
     sampleRecommendations |-> Slice(recs, SampleSize),
     mailerLiteResult |-> mailerLiteResult]

SubscriberRequest(r) ==
    [kind |-> "subscriber", email |-> r.email, discount_code |-> r.discountCode,
     discount_percent |-> r.discountPercent]

\* The two checks at the top of the handler, then the call of the fetch.
BatchStart ==
    /\ bpc = "start"
    /\ IF ~IsSet(body.ruleConfig)
       THEN /\ Respond([status |-> 400, error |-> "ruleConfig is required to run batch reactivation."])
            /\ UNCHANGED fetchVars
       ELSE IF ~env.SHOPIFY_API_KEY \/ ~env.SHOPIFY_STORE
       THEN /\ Respond([status |-> 400, error |-> "Shopify credentials not configured"])
            /\ UNCHANGED fetchVars
       ELSE /\ FetchCall(BatchLimit(body, env))
            /\ bpc' = "fetching"
            /\ UNCHANGED <<upstream, res>>
    /\ UNCHANGED <<ruleVars, shopifyConforms, metricVars, apiVars,
                   env, body, totalFetched, recommendations,
                   mailerRequests, mailerResponses, groupId, addedCount>>

\* The fetch threw: the handler's catch answers 500.
BatchFetchThrown ==
    /\ bpc = "fetching"
    /\ fpc = "thrown"
    /\ Respond([status |-> 500, error |-> "Shopify API error"])
    /\ UNCHANGED <<fetchVars, ruleVars, shopifyConforms, metricVars, apiVars,
                   env, body, totalFetched,
                   recommendations, mailerRequests, mailerResponses, groupId, addedCount>>

\* The fetch returned: metrics, recommendations, then either the answer or
\* the first MailerLite call (the group).
BatchAfterFetch ==
    /\ bpc = "fetching"
    /\ fpc = "returned"
    /\ LET recs == BatchRecommendations(fetchResult, body.ruleConfig[1], Now)
       IN  /\ totalFetched' = Len(fetchResult)
           /\ recommendations' = recs
           /\ IF ~body.sendToMailerLite
              THEN /\ Respond(Success(Len(fetchResult), recs, <<>>))
                   /\ UNCHANGED mailerRequests
              ELSE IF ~env.MAILERLITE_API_KEY
              THEN /\ Respond([status |-> 400, error |-> "MAILERLITE_API_KEY not configured, cannot send directly to MailerLite."])
                   /\ UNCHANGED mailerRequests
              ELSE /\ mailerRequests' = Append(mailerRequests, [kind |-> "group"])
                   /\ bpc' = "group"
                   /\ UNCHANGED res
    /\ UNCHANGED <<fetchVars, ruleVars, shopifyConforms, metricVars, apiVars,
                   env, body, mailerResponses,
                   groupId, addedCount>>

\* The group call failed (the request or the parse of its body threw) or
\* its answer carries no data.id: the handler answers 500.
BatchGroupFailed ==
    /\ bpc = "group"
    /\ \E outcome \in {"thrown", "noId"} :
          mailerResponses' = Append(mailerResponses, outcome)
    /\ Respond([status |-> 500, error |-> "Failed to create MailerLite group in batch endpoint"])
    /\ UNCHANGED <<fetchVars, ruleVars, shopifyConforms, metricVars, apiVars,
                   env, body, totalFetched,
                   recommendations, mailerRequests, groupId, addedCount>>

\* The group was created: enter the subscriber loop.
BatchGroupCreated ==
    /\ bpc = "group"
    /\ mailerResponses' = Append(mailerResponses, "created")
    /\ \E id \in {7} : groupId' = <<id>>
    /\ addedCount' = 0
    /\ IF recommendations = <<>>
       THEN /\ Respond(Success(totalFetched, recommendations,
                               <<[groupId |-> groupId'[1], addedCount |-> 0]>>))
            /\ UNCHANGED mailerRequests
       ELSE /\ mailerRequests' = Append(mailerRequests, SubscriberRequest(recommendations[1]))
            /\ bpc' = "subscriber"
            /\ UNCHANGED res
    /\ UNCHANGED <<fetchVars, ruleVars, shopifyConforms, metricVars, apiVars,
                   env, body, totalFetched,
                   recommendations>>

\* One subscriber call ended: count it unless it threw, then go on with the
\* next recommendation or answer.
BatchSubscriberDone ==
    /\ bpc = "subscriber"
    /\ \E outcome \in {"accepted", "rejected", "thrown"} :
          /\ mailerResponses' = Append(mailerResponses, outcome)
          /\ addedCount' = IF outcome = "thrown" THEN addedCount ELSE addedCount + 1
    /\ LET sent == Len(mailerRequests) - 1
       IN  IF sent < Len(recommendations)
           THEN /\ mailerRequests' =
                      Append(mailerRequests, SubscriberRequest(recommendations[sent + 1]))
                /\ UNCHANGED <<bpc, res>>
           ELSE /\ Respond(Success(totalFetched, recommendations,
                                   <<[groupId |-> groupId[1], addedCount |-> addedCount']>>))
                /\ UNCHANGED mailerRequests
    /\ UNCHANGED <<fetchVars, ruleVars, shopifyConforms, metricVars, apiVars,
                   env, body, totalFetched,
                   recommendations, groupId>>

BatchLocals == <<bpc, totalFetched, recommendations, mailerRequests, mailerResponses,
                 groupId, addedCount>>

\* the locals of the batch handler before it runs
BatchLocalsIdle ==
    /\ bpc = "idle"
    /\ totalFetched = 0
    /\ recommendations = <<>>
    /\ mailerRequests = <<>>
    /\ mailerResponses = <<>>
    /\ groupId = <<>>
    /\ addedCount = 0

BatchIdle ==
    /\ env = [SHOPIFY_API_KEY |-> TRUE, SHOPIFY_STORE |-> TRUE, MAILERLITE_API_KEY |-> TRUE,
              OPENAI_API_KEY |-> TRUE, MAX_BATCH_CUSTOMERS |-> <<>>,
              MAX_CUSTOMERS_ANALYZED |-> <<>>]
    /\ body = [ruleConfig |-> <<>>, maxCustomers |-> <<>>, sendToMailerLite |-> FALSE]
    /\ bpc = "idle"
    /\ totalFetched = 0
    /\ recommendations = <<>>
    /\ mailerRequests = <<>>
    /\ mailerResponses = <<>>
    /\ groupId = <<>>
    /\ addedCount = 0
    /\ res = NoResponse

MetricsIdle ==
    /\ rawCustomer = Raw(0, <<>>, <<>>, <<>>, <<>>, <<>>)
    /\ metrics = <<>>
    /\ mpc = "idle"

HandlerIdle ==
    /\ hpc = "idle"
    /\ uniqueCodes = <<>>
    /\ createdCodes = <<>>
    /\ failedCodes = <<>>
    /\ iter = 0
    /\ calls = <<>>
    /\ callResults = <<>>

\* no inbound request
ApiIdle ==
    /\ route = "none"
    /\ reqMethod = "none"
    /\ client = "none"
    /\ HandlerIdle

-----------------------------------------------------------------------------
(* The matcher on its own: one call on any customer and rule config.         *)

RuleIdle ==
    /\ ruleConfig = [tiers |-> <<>>, default |-> <<>>]
    /\ ruleCustomer = Metrics(0, <<>>, 0, 0)
    /\ rec = NoRec
    /\ rpc = "idle"

ApplyRule ==
    /\ rpc = "call"
    /\ rec' = applyRuleConfigToCustomer(ruleCustomer, ruleConfig)
    /\ rpc' = "done"
    /\ UNCHANGED <<ruleConfig, ruleCustomer>>
    /\ UNCHANGED <<fetchVars, shopifyConforms, metricVars, apiVars, batchVars>>

FetchIdle ==
    /\ upstream = <<>>
    /\ limitTotal = 0
    /\ allCustomers = <<>>
    /\ pageInfo = Null
    /\ done = FALSE
    /\ fpc = "idle"
    /\ fetchResult = <<>>
    /\ shopifyRequests = <<>>
    /\ shopifyResponses = <<>>

InitRule ==
    /\ ruleConfig \in RuleConfigs
    /\ ruleCustomer \in CustomerPool
    /\ rec = NoRec
    /\ rpc = "call"
    /\ FetchIdle
    /\ shopifyConforms = TRUE
    /\ BatchIdle
    /\ MetricsIdle
    /\ ApiIdle

NextRule == ApplyRule

SpecRule == InitRule /\ [][NextRule]_vars

-----------------------------------------------------------------------------
(* The pagination fetcher on its own: any limit_total, any store size.      *)

InitFetch ==
    /\ upstream \in {[i \in 1..n |-> RawId(i)] : n \in BoundaryValues}
    /\ limitTotal \in BoundaryValues
    /\ allCustomers = <<>>
    /\ pageInfo = Null
    /\ done = FALSE
    /\ fpc = "loop"
    /\ fetchResult = <<>>
    /\ shopifyRequests = <<>>
    /\ shopifyResponses = <<>>
    /\ shopifyConforms = FALSE
    /\ RuleIdle
    /\ BatchIdle
    /\ MetricsIdle
    /\ ApiIdle

NextFetch ==
    \/ FetchIssue
    \/ FetchReturn
    \/ FetchResponseNotOk
    \/ FetchResponseOk

SpecFetch == InitFetch /\ [][NextFetch]_vars

-----------------------------------------------------------------------------
(* One request to POST /api/reactivation/batch against a store that answers *)
(* the documented way (or with an error status).                            *)

MaxCust == 2           \* customers in the store

Email_b == <<"b", "@", "x">>

Str_150_00 == <<"1", "5", "0", ".", "0", "0">>

Str_75 == <<"7", "5">>

Str_abc == <<"a", "b", "c">>

RawPool ==
    { Raw(1, <<Email_a>>, <<3>>, <<Str_150_00>>, <<Now - 70 * DaySeconds>>, <<Now>>),
      Raw(2, <<>>, <<1>>, <<Str_75>>, <<Now - 45 * DaySeconds>>, <<>>),
      Raw(3, <<Email_b>>, <<>>, <<>>, <<>>, <<>>),
      Raw(4, <<Email_b>>, <<2>>, <<Str_75>>, <<>>, <<Now - 45 * DaySeconds - 1>>),
      Raw(5, <<<<>>>>, <<0>>, <<Str_abc>>, <<Now + 1>>, <<>>),
      Raw(6, <<Email_a>>, <<1>>, <<Str_75>>, <<Now + 2 * DaySeconds>>, <<>>) }

BatchTierPool ==
    { t \in TierPool :
        \/ t.minDaysSinceLastOrder = <<60>>
        \/ t.minDaysSinceLastOrder = <<30>>
        \/ t.discountCode = <<Str_vip25>>
        \/ t.maxDaysSinceLastOrder = <<30>>
        \/ t.discountPercent = <<50>> }

BatchRuleConfigs ==
    {[tiers |-> ts, default |-> df] :
        ts \in SeqsUpTo(BatchTierPool, 1), df \in {<<>>} \cup {<<t>> : t \in DefaultPool}}

EnvPool ==
    { [SHOPIFY_API_KEY |-> TRUE, SHOPIFY_STORE |-> TRUE, MAILERLITE_API_KEY |-> TRUE,
       OPENAI_API_KEY |-> TRUE, MAX_BATCH_CUSTOMERS |-> <<>>,
       MAX_CUSTOMERS_ANALYZED |-> <<>>],
      [SHOPIFY_API_KEY |-> TRUE, SHOPIFY_STORE |-> TRUE, MAILERLITE_API_KEY |-> FALSE,
       OPENAI_API_KEY |-> TRUE, MAX_BATCH_CUSTOMERS |-> <<1>>,
       MAX_CUSTOMERS_ANALYZED |-> <<>>],
      [SHOPIFY_API_KEY |-> FALSE, SHOPIFY_STORE |-> TRUE, MAILERLITE_API_KEY |-> TRUE,
       OPENAI_API_KEY |-> TRUE, MAX_BATCH_CUSTOMERS |-> <<>>,
       MAX_CUSTOMERS_ANALYZED |-> <<>>],
      [SHOPIFY_API_KEY |-> TRUE, SHOPIFY_STORE |-> FALSE, MAILERLITE_API_KEY |-> TRUE,
       OPENAI_API_KEY |-> TRUE, MAX_BATCH_CUSTOMERS |-> <<>>,
       MAX_CUSTOMERS_ANALYZED |-> <<>>] }

InitBatch ==
    /\ upstream \in SeqsUpTo(RawPool, MaxCust)
    /\ limitTotal = 0
    /\ allCustomers = <<>>
    /\ pageInfo = Null
    /\ done = FALSE
    /\ fpc = "idle"
    /\ fetchResult = <<>>
    /\ shopifyRequests = <<>>
    /\ shopifyResponses = <<>>
    /\ shopifyConforms = TRUE
    /\ RuleIdle
    /\ env \in EnvPool
    /\ body \in [ruleConfig : {<<>>} \cup {<<c>> : c \in BatchRuleConfigs},
                 maxCustomers : {<<>>, <<1>>, <<MaxCust>>},
                 sendToMailerLite : BOOLEAN]
    /\ bpc = "start"
    /\ totalFetched = 0
    /\ recommendations = <<>>
    /\ mailerRequests = <<>>
    /\ mailerResponses = <<>>
    /\ groupId = <<>>
    /\ addedCount = 0
    /\ res = NoResponse
    /\ MetricsIdle
    /\ route = "/api/reactivation/batch"
    /\ reqMethod = "POST"
    /\ client = "none"
    /\ HandlerIdle

NextBatch ==
    \/ BatchStart
    \/ FetchIssue
    \/ FetchReturn
    \/ FetchResponseNotOk
    \/ FetchResponseOk
    \/ BatchFetchThrown
    \/ BatchAfterFetch
    \/ BatchGroupFailed
    \/ BatchGroupCreated
    \/ BatchSubscriberDone

SpecBatch == InitBatch /\ [][NextBatch]_vars

-----------------------------------------------------------------------------
(* Properties of the pagination fetcher *)

HasNextEntry(link) == link.present /\ \E i \in DOMAIN link.links : link.links[i].rel = "next"

\* Response i is what a well-behaved store sends: success, min(requested
\* limit, remaining) records, and a rel="next" link, carrying the cursor of
\* the following page, exactly while records remain.
Conformant(i) ==
    LET req == shopifyRequests[i]
        resp == shopifyResponses[i]
        off == Offset(req.page_info)
    IN  /\ resp.ok
        /\ resp.n = Min(req.limit, Remaining(off))
        /\ HasNextEntry(resp.link) <=> (off + resp.n < Len(upstream))
        /\ \A j \in DOMAIN resp.link.links :
              resp.link.links[j].rel = "next" => resp.link.links[j].page_info = off + resp.n

AllConformant == \A i \in DOMAIN shopifyResponses : Conformant(i)

\* C1: against a well-behaved store of N customers the fetch returns exactly
\* the first min(limit_total, N) records, in upstream order.
C1_ExactPrefix ==
    (fpc = "returned" /\ AllConformant)
        => fetchResult = SubSeq(upstream, 1, Min(limitTotal, Len(upstream)))

C1_Witness ==
    /\ fpc = "returned"
    /\ AllConformant
    /\ Len(shopifyRequests) >= 2
    /\ limitTotal < Len(upstream)
    /\ Len(fetchResult) = limitTotal

\* C2: whatever the store answers, the returned sequence never has more than
\* limit_total records.
C2_NeverMoreThanLimit == fpc = "returned" => Len(fetchResult) <= limitTotal

C2_Witness ==
    /\ fpc = "returned"
    /\ Len(allCustomers) > limitTotal
    /\ \E i \in DOMAIN shopifyResponses : shopifyResponses[i].n > shopifyRequests[i].limit
    /\ Len(fetchResult) = limitTotal

\* C3: with limit_total = 0 no request is ever issued and the fetch returns
\* the empty sequence.
C3_ZeroLimitNoRequest ==
    limitTotal = 0 =>
        /\ shopifyRequests = <<>>
        /\ fpc \in {"loop", "returned"}
        /\ fpc = "returned" => fetchResult = <<>>

C3_Witness == limitTotal = 0 /\ fpc = "returned" /\ Len(upstream) > 0

\* The header ends the pagination: it is absent, or has no rel="next" entry,
\* or its rel="next" entry has no page_info that parses.
TerminalLink(link) ==
    \/ ~link.present
    \/ \A i \in DOMAIN link.links : link.links[i].rel # "next"
    \/ \E i \in DOMAIN link.links :
          /\ link.links[i].rel = "next"
          /\ link.links[i].page_info = Null
          /\ \A j \in 1..(i - 1) : link.links[j].rel # "next"

\* C4: when the first page comes without a usable rel="next" link, that
\* request stays the only one, however few records the page carried.
C4_OneRequestWithoutNext ==
    (Len(shopifyResponses) >= 1 /\ shopifyResponses[1].ok
        /\ TerminalLink(shopifyResponses[1].link))
        => (Len(shopifyRequests) = 1 /\ fpc \in {"loop", "returned"})

C4_Witness ==
    /\ fpc = "returned"
    /\ Len(shopifyRequests) = 1
    /\ shopifyResponses[1].ok
    /\ HasNextEntry(shopifyResponses[1].link)
    /\ TerminalLink(shopifyResponses[1].link)
    /\ Len(fetchResult) < limitTotal
    /\ Len(fetchResult) < Len(upstream)

\* C5: a non-success response is the last thing the fetch sees: the fetch is
\* rejected, the failed request stays the last request issued, and no value
\* (so none of the accumulated records) is returned.
C5_FailsAtOnce ==
    \A i \in DOMAIN shopifyResponses :
        ~shopifyResponses[i].ok =>
            /\ fpc = "thrown"
            /\ i = Len(shopifyRequests)
            /\ fetchResult = <<>>

C5_Witness ==
    /\ fpc = "thrown"
    /\ Len(shopifyRequests) >= 2
    /\ Len(allCustomers) > 0

-----------------------------------------------------------------------------
(* Properties of the tier rule matcher *)

\* The customer lies within the tier's spend and days bounds, all four
\* inclusive, an unset minimum being 0 and an unset maximum no bound at all.
Contains(t, c) ==
    /\ c.totalSpent # NaN
    /\ (IF t.minTotalSpent = <<>> THEN 0 ELSE t.minTotalSpent[1]) <= c.totalSpent
    /\ t.maxTotalSpent = <<>> \/ c.totalSpent <= t.maxTotalSpent[1]
    /\ c.daysSinceLastOrder # NaN
    /\ (IF t.minDaysSinceLastOrder = <<>> THEN 0 ELSE t.minDaysSinceLastOrder[1])
            <= c.daysSinceLastOrder
    /\ t.maxDaysSinceLastOrder = <<>> \/ c.daysSinceLastOrder <= t.maxDaysSinceLastOrder[1]

NoTierContains == \A i \in DOMAIN ruleConfig.tiers : ~Contains(ruleConfig.tiers[i], ruleCustomer)

\* C6: the recommendation is built from the tier of lowest index whose bounds
\* contain the customer, also when a later tier contains the customer too.
C6_FirstMatchWins ==
    rpc = "done" =>
        \A i \in DOMAIN ruleConfig.tiers :
            ( /\ Contains(ruleConfig.tiers[i], ruleCustomer)
              /\ \A j \in 1..(i - 1) : ~Contains(ruleConfig.tiers[j], ruleCustomer) )
            => rec = TierRecommendation(ruleCustomer, ruleConfig.tiers[i])

\* tiers [spend 0..100 -> 10%, spend 50..150 -> 20%] and spend 75 give 10%
C6_Witness ==
    /\ rpc = "done"
    /\ Len(ruleConfig.tiers) = 2
    /\ ruleConfig.tiers[1].minTotalSpent = <<0>> /\ ruleConfig.tiers[1].maxTotalSpent = <<100>>
    /\ ruleConfig.tiers[1].discountPercent = <<10>>
    /\ ruleConfig.tiers[2].minTotalSpent = <<50>> /\ ruleConfig.tiers[2].maxTotalSpent = <<150>>
    /\ ruleConfig.tiers[2].discountPercent = <<20>>
    /\ ruleCustomer.totalSpent = 75
    /\ rec # NoRec
    /\ rec.discountPercent = 10

\* C7: without a default tier, the matcher returns a recommendation exactly
\* when some tier contains the customer (bounds inclusive, unset minimum 0,
\* unset maximum unbounded).
C7_MatchIffWithinBounds ==
    (rpc = "done" /\ ruleConfig.default = <<>>) => (rec # NoRec <=> ~NoTierContains)

\* a customer exactly on the upper spend bound and the lower days bound
C7_Witness ==
    /\ rpc = "done"
    /\ ruleConfig.default = <<>>
    /\ Len(ruleConfig.tiers) = 1
    /\ ruleConfig.tiers[1].maxTotalSpent = <<ruleCustomer.totalSpent>>
    /\ ruleConfig.tiers[1].minDaysSinceLastOrder = <<ruleCustomer.daysSinceLastOrder>>
    /\ rec # NoRec

\* C8: a customer no tier contains gets null without a default tier and the
\* default tier's recommendation with one, whatever the default's own bounds;
\* a customer some tier contains never gets the default's recommendation.
C8_DefaultOnlyWhenNoMatch ==
    rpc = "done" =>
        /\ (NoTierContains /\ ruleConfig.default = <<>>) => rec = NoRec
        /\ (NoTierContains /\ ruleConfig.default # <<>>)
              => rec = DefaultRecommendation(ruleCustomer, ruleConfig.default[1])
        /\ (~NoTierContains /\ ruleConfig.default # <<>>)
              => rec # DefaultRecommendation(ruleCustomer, ruleConfig.default[1])

C8_Witness ==
    /\ rpc = "done"
    /\ Len(ruleConfig.tiers) >= 1
    /\ NoTierContains
    /\ ruleConfig.default # <<>>
    /\ ~Contains(ruleConfig.default[1], ruleCustomer)
    /\ rec # NoRec
    /\ rec.discountPercent = 30

\* The tier a recommendation comes from: the first containing one, else the default.
UsedTier ==
    IF NoTierContains THEN ruleConfig.default[1]
    ELSE ruleConfig.tiers[CHOOSE i \in DOMAIN ruleConfig.tiers :
            /\ Contains(ruleConfig.tiers[i], ruleCustomer)
            /\ \A j \in 1..(i - 1) : ~Contains(ruleConfig.tiers[j], ruleCustomer)]

HasText(f) == f # <<>> /\ f[1] # <<>>

\* C9: the discount code is the tier's explicit (non-empty) discountCode, and
\* otherwise prefix ("WINBACK" when unset or empty) followed by the percent
\* (0 when unset), uppercased; for a matched tier and for the default alike.
C9_DiscountCode ==
    (rpc = "done" /\ rec # NoRec) =>
        LET t == UsedTier
            pct == IF t.discountPercent = <<>> THEN 0 ELSE t.discountPercent[1]
            prefix == IF HasText(t.discountCodePrefix) THEN t.discountCodePrefix[1]
                      ELSE <<"W", "I", "N", "B", "A", "C", "K">>
        IN  /\ HasText(t.discountCode) => rec.discountCode = t.discountCode[1]
            /\ ~HasText(t.discountCode)
                  => rec.discountCode = ToUpperCase(prefix \o NumToStr(pct))

\* prefix "save" with percent 15 gives "SAVE15"
C9_Witness ==
    /\ rpc = "done"
    /\ rec # NoRec
    /\ ~NoTierContains
    /\ UsedTier.discountCodePrefix = <<Str_save>>
    /\ UsedTier.discountPercent = <<15>>
    /\ UsedTier.discountCode = <<>>
    /\ rec.discountCode = <<"S", "A", "V", "E", "1", "5">>

-----------------------------------------------------------------------------
(* Properties of the batch handler *)

PositiveWithEmail(r) == r.discountPercent > 0 /\ HasText(r.email)

\* The recommendation the matcher gives the i-th fetched customer.
MatcherOutput(i) ==
    applyRuleConfigToCustomer(ToMetrics(fetchResult[i], Now), body.ruleConfig[1])

\* The i-th fetched customer matched a tier (or the default) and is dropped
\* all the same: the percent is not positive, or the customer has no email.
MatchedButDropped(i) ==
    /\ MatcherOutput(i) # NoRec
    /\ MatcherOutput(i).discountPercent <= 0 \/ ~HasText(fetchResult[i].email)

\* C10: every recommendation the batch counts, samples in its answer or sends
\* to MailerLite has discountPercent > 0 and an email, and a fetched customer
\* whose tier gives a percent <= 0, or who has no email, contributes none.
C10_BatchKeepsPositiveWithEmail ==
    /\ \A i \in DOMAIN recommendations : PositiveWithEmail(recommendations[i])
    /\ \A i \in DOMAIN mailerRequests :
          mailerRequests[i].kind = "subscriber" =>
              (mailerRequests[i].discount_percent > 0 /\ HasText(mailerRequests[i].email))
    /\ res.status = 200 =>
          /\ \A i \in DOMAIN res.sampleRecommendations :
                PositiveWithEmail(res.sampleRecommendations[i])
          /\ res.totalRecommendations =
                Cardinality({i \in DOMAIN fetchResult :
                                MatcherOutput(i) # NoRec /\ ~MatchedButDropped(i)})
          /\ \A i \in DOMAIN fetchResult :
                MatchedButDropped(i) =>
                    \A j \in DOMAIN recommendations :
                        recommendations[j].customerId # fetchResult[i].id

C10_Witness ==
    /\ res.status = 200
    /\ Len(fetchResult) = 2
    /\ MatchedButDropped(1)
    /\ MatcherOutput(1).discountPercent <= 0
    /\ HasText(fetchResult[1].email)
    /\ Len(recommendations) = 1
    /\ res.totalRecommendations = 1
    /\ \E i \in DOMAIN mailerRequests : mailerRequests[i].kind = "subscriber"

\* A kept customer next to one dropped for the missing email alone.
C10_WitnessNoEmail ==
    /\ res.status = 200
    /\ Len(fetchResult) = 2
    /\ MatchedButDropped(2)
    /\ MatcherOutput(2).discountPercent > 0
    /\ Len(recommendations) = 1

\* The i-th fetched customer carries no timestamp: the reducer gives it 999.
NoTimestamp(i) == fetchResult[i].updated_at = <<>> /\ fetchResult[i].created_at = <<>>

\* The tier leaves some day counts out.
BoundsRecency(t) ==
    \/ t.minDaysSinceLastOrder # <<>> /\ t.minDaysSinceLastOrder[1] > 0
    \/ t.maxDaysSinceLastOrder # <<>>

\* C20: a customer whose daysSinceLastOrder is the sentinel 999 (no timestamp
\* upstream) carries no recency signal: the matcher does not compare the 999
\* with a tier's day bounds, so no recommendation of the batch comes from a
\* tier that bounds the day count and holds for that customer only because
\* 999 lies within [minDays, maxDays].
C20_SentinelIsNoRecencySignal ==
    res.status = 200 =>
        \A i \in DOMAIN fetchResult :
            NoTimestamp(i) =>
                LET tiers == body.ruleConfig[1].tiers
                    k == FirstMatch(ToMetrics(fetchResult[i], Now), tiers)
                IN  (k # 0 /\ BoundsRecency(tiers[k])) =>
                        \A j \in DOMAIN recommendations :
                            recommendations[j].customerId # fetchResult[i].id

-----------------------------------------------------------------------------
(* The metrics reducer on its own: one call of the map callback of GET      *)
(* /api/shopify/customers (the batch handler holds a copy of it) on any raw *)
(* customer.                                                                 *)

ReduceCustomer ==
    /\ mpc = "call"
    /\ metrics' = ToMetrics(rawCustomer, Now)
    /\ mpc' = "done"
    /\ UNCHANGED rawCustomer
    /\ UNCHANGED <<fetchVars, ruleVars, shopifyConforms, batchVars, apiVars>>

OrdersCountPool == {<<>>, <<0>>, <<3>>, <<-2>>, <<NaN>>}

TotalSpentPool == {<<>>, <<<<>>>>, <<Str_0_00>>, <<Str_150_00>>, <<Str_75>>, <<Str_abc>>}

TimestampPool ==
    {<<>>, <<Now - 70 * DaySeconds>>, <<Now - 45 * DaySeconds - 1>>, <<Now + 1>>, <<NaN>>}

InitMetrics ==
    /\ rawCustomer \in {Raw(1, <<Email_a>>, o, s, u, c) :
                            o \in OrdersCountPool, s \in TotalSpentPool,
                            u \in TimestampPool, c \in TimestampPool}
    /\ metrics = <<>>
    /\ mpc = "call"
    /\ FetchIdle
    /\ shopifyConforms = TRUE
    /\ RuleIdle
    /\ BatchIdle
    /\ ApiIdle

NextMetrics == ReduceCustomer

SpecMetrics == InitMetrics /\ [][NextMetrics]_vars

-----------------------------------------------------------------------------
(* Properties of the metrics reducer *)

ZeroAverage == [num |-> 0, den |-> 1]

\* C11: the derived averageOrderValue is 0 whenever the derived totalOrders is
\* 0 or is not a positive number, so that no quotient with a zero divisor ever
\* appears; otherwise it is totalSpent / totalOrders.
C11_AverageOrderValue ==
    mpc = "done" =>
        LET a == metrics.averageOrderValue
        IN  /\ a.den # 0
            /\ rawCustomer.orders_count \in {<<>>, <<0>>} => metrics.totalOrders = 0
            /\ ~Gt(metrics.totalOrders, 0) => a = ZeroAverage
            /\ Gt(metrics.totalOrders, 0) =>
                    a.num = metrics.totalSpent /\ a.den = metrics.totalOrders

\* a customer who spent 150 in no order: the average is 0, not 150 / 0
C11_Witness ==
    /\ mpc = "done"
    /\ rawCustomer.total_spent = <<Str_150_00>>
    /\ metrics.totalSpent = 150
    /\ metrics.totalOrders = 0
    /\ metrics.averageOrderValue = ZeroAverage

\* C12: a raw customer with neither updated_at nor created_at gets
\* daysSinceLastOrder = 999 exactly; a customer with either timestamp gets
\* floor((now - timestamp) / one day), the timestamp being updated_at when it
\* is there and created_at otherwise (an unreadable timestamp gives NaN).
C12_DaysSinceLastOrder ==
    mpc = "done" =>
        LET u == rawCustomer.updated_at
            c == rawCustomer.created_at
            dsl == metrics.daysSinceLastOrder
        IN  IF u = <<>> /\ c = <<>> THEN dsl = 999
            ELSE LET ts == IF u # <<>> THEN u[1] ELSE c[1]
                 IN  IF ts = NaN THEN dsl = NaN
                     ELSE /\ dsl * DaySeconds <= Now - ts
                          /\ Now - ts < (dsl + 1) * DaySeconds

\* both timestamps there, a different number of days away: updated_at decides
C12_Witness ==
    /\ mpc = "done"
    /\ rawCustomer.updated_at = <<Now - 45 * DaySeconds - 1>>
    /\ rawCustomer.created_at = <<Now - 70 * DaySeconds>>
    /\ metrics.daysSinceLastOrder = 45

NotNumeric(str) == str = <<>> \/ ~IsDigit(str[1])

\* C13: the reducer is total: every raw record with an identifier gets a
\* CustomerMetrics, with totalOrders = 0 when orders_count is missing and
\* totalSpent = 0 when total_spent is missing or is a string that does not
\* parse as a number.
C13_TotalWithZeroDefaults ==
    mpc = "done" =>
        /\ metrics.id = rawCustomer.id
        /\ rawCustomer.orders_count = <<>> => metrics.totalOrders = 0
        /\ rawCustomer.total_spent = <<>> => metrics.totalSpent = 0
        /\ (rawCustomer.total_spent # <<>> /\ NotNumeric(rawCustomer.total_spent[1])) =>
                metrics.totalSpent = 0

-----------------------------------------------------------------------------
(* POST /api/shopify/discounts.  A recommendation of the request is held as *)
(* [discountCode, discountPercent], the percent being <<>> when it is not a *)
(* number.  The object uniqueCodes is the sequence of its [code, percentage] *)
(* properties in the order they were created.                                *)

MaxRecs == 2           \* recommendations in a request

PauseMs == 500

Code_A == <<"A">>

Code_B == <<"B">>

Code_7 == <<"7">>

Recommendation(code, percent) == [discountCode |-> code, discountPercent |-> percent]

RecommendationPool ==
    { Recommendation(<<Code_A>>, <<10>>),
      Recommendation(<<Code_A>>, <<20>>),
      Recommendation(<<Code_A>>, <<0>>),
      Recommendation(<<Code_B>>, <<20>>),
      Recommendation(<<Code_7>>, <<10>>),
      Recommendation(<<>>, <<10>>),
      Recommendation(<<<<>>>>, <<10>>),
      Recommendation(<<Code_B>>, <<>>),
      Recommendation(<<Code_B>>, <<50>>) }

\* Position of the property named code, 0 when the object has none.
KeyIndex(obj, code) ==
    IF \E i \in DOMAIN obj : obj[i].code = code
    THEN CHOOSE i \in DOMAIN obj : obj[i].code = code
    ELSE 0

\* The forEach callback: a code is taken when it is truthy and the percent is
\* a number, and stored when the object holds no truthy value for it (a stored
\* 0 is overwritten in place).
GroupStep(obj, r) ==
    IF ~(TruthyStr(r.discountCode) /\ IsSet(r.discountPercent)) THEN obj
    ELSE LET code == r.discountCode[1]
             k == KeyIndex(obj, code)
             entry == [code |-> code, percentage |-> r.discountPercent[1]]
         IN  IF k = 0 THEN Append(obj, entry)
             ELSE IF obj[k].percentage = 0 \/ obj[k].percentage = NaN
                  THEN [obj EXCEPT ![k] = entry]
             ELSE obj

RECURSIVE GroupByCode(_)
GroupByCode(recs) ==
    IF recs = <<>> THEN <<>>
    ELSE GroupStep(GroupByCode(SubSeq(recs, 1, Len(recs) - 1)), recs[Len(recs)])

\* An integer-like property name: digits with no leading zero.
IsIndexKey(code) ==
    /\ code # <<>>
    /\ \A i \in DOMAIN code : IsDigit(code[i])
    /\ Len(code) > 1 => code[1] # "0"

RECURSIVE SortedIndexKeys(_)
SortedIndexKeys(es) ==
    IF es = <<>> THEN <<>>
    ELSE LET k == CHOOSE i \in DOMAIN es :
                      \A j \in DOMAIN es : DigitsValue(es[i].code) <= DigitsValue(es[j].code)
         IN  <<es[k]>> \o SortedIndexKeys(SubSeq(es, 1, k - 1) \o SubSeq(es, k + 1, Len(es)))

IsIndexEntry(e) == IsIndexKey(e.code)

IsNameEntry(e) == ~IsIndexKey(e.code)

\* Object.entries: integer-like names in ascending order, then the other
\* names in the order they were created.
ObjectEntries(obj) ==
    SortedIndexKeys(SelectSeq(obj, IsIndexEntry)) \o SelectSeq(obj, IsNameEntry)

\* value: `-${percentage}`
PriceRuleRequest(e) ==
    [to |-> "shopify", kind |-> "price_rule", code |-> e.code,
     value |-> <<"-">> \o NumToStr(e.percentage)]

DiscountCodeRequest(code, priceRuleId) ==
    [to |-> "shopify", kind |-> "discount_code", code |-> code, priceRuleId |-> priceRuleId]

\* await new Promise((resolve) => setTimeout(resolve, 500))
PauseCall == [to |-> "timer", kind |-> "pause", ms |-> PauseMs]

\* How the POST of a price rule can end: a 2xx with price_rule.id, a 2xx with
\* another body, a non-2xx, a rejected fetch.
PriceRuleOutcomes == {"ok", "malformed", "not_ok", "threw"}

DiscountCodeOutcomes == {"ok", "not_ok", "threw"}

PriceRuleError(outcome) ==
    IF outcome = "not_ok" THEN "Price rule creation failed"
    ELSE IF outcome = "malformed" THEN "TypeError"
    ELSE "fetch failed"

DiscountCodeError(outcome) ==
    IF outcome = "not_ok" THEN "Discount code creation failed" ELSE "fetch failed"

\* res.json({ createdCodes, failedCodes })
DiscountsAnswer(created, failed) ==
    [status |-> 200, createdCodes |-> created, failedCodes |-> failed]

BadRequest(message) == [status |-> 400, error |-> message]

ServerError(message) == [status |-> 500, error |-> message]

\* A loop that starts every price rule request at once.
DiscountsIterate_FireAll(entries, i, created, failed, log) ==
    /\ createdCodes' = created
    /\ failedCodes' = failed
    /\ iter' = i
    /\ IF i <= Len(entries)
       THEN /\ calls' = log \o [k \in 1..(Len(entries) - i + 1) |->
                                    PriceRuleRequest(entries[i + k - 1])]
            /\ hpc' = "await_price_rule"
            /\ UNCHANGED res
       ELSE /\ calls' = log
            /\ hpc' = "responded"
            /\ res' = DiscountsAnswer(created, failed)

\* The head of the for loop at iteration i: the next price rule request, or
\* the answer when the entries are used up.
DiscountsIterate(entries, i, created, failed, log) ==
    /\ createdCodes' = created
    /\ failedCodes' = failed
    /\ iter' = i
    /\ IF i <= Len(entries)
       THEN /\ calls' = Append(log, PriceRuleRequest(entries[i]))
            /\ hpc' = "await_price_rule"
            /\ UNCHANGED res
       ELSE /\ calls' = log
            /\ hpc' = "responded"
            /\ res' = DiscountsAnswer(created, failed)

HandlerRest == <<fetchVars, ruleVars, shopifyConforms, metricVars, env, body, bpc,
                 totalFetched, recommendations>>

\* The two checks, the grouping, and the first iteration up to its first await.
DiscountsStart ==
    /\ Routed("discounts")
    /\ hpc = "start"
    /\ IF ~env.SHOPIFY_API_KEY \/ ~env.SHOPIFY_STORE
       THEN /\ res' = BadRequest("Shopify credentials not configured")
            /\ hpc' = "responded"
            /\ UNCHANGED <<uniqueCodes, createdCodes, failedCodes, iter, calls>>
       ELSE IF ~IsSet(body.recommendations) \/ body.recommendations[1] = <<>>
       THEN /\ res' = BadRequest("No recommendations provided to create discounts.")
            /\ hpc' = "responded"
            /\ UNCHANGED <<uniqueCodes, createdCodes, failedCodes, iter, calls>>
       ELSE /\ uniqueCodes' = GroupByCode(body.recommendations[1])
            /\ DiscountsIterate(ObjectEntries(uniqueCodes'), 1, <<>>, <<>>, calls)
    /\ UNCHANGED <<request, callResults, mailerRequests, mailerResponses, groupId, addedCount>>
    /\ UNCHANGED HandlerRest

\* The price rule request settles: on success the discount code request
\* follows, otherwise the catch records the code and the loop goes on.
DiscountsPriceRuleSettled ==
    /\ Routed("discounts")
    /\ hpc = "await_price_rule"
    /\ \E outcome \in PriceRuleOutcomes :
          LET entries == ObjectEntries(uniqueCodes)
              code == entries[iter].code
              priceRuleId == Len(calls)
          IN  /\ callResults' = Append(callResults, [outcome |-> outcome, id |-> priceRuleId])
              /\ IF outcome = "ok"
                 THEN /\ calls' = Append(calls, DiscountCodeRequest(code, priceRuleId))
                      /\ hpc' = "await_discount_code"
                      /\ UNCHANGED <<createdCodes, failedCodes, iter, res>>
                 ELSE DiscountsIterate(entries, iter + 1, createdCodes,
                          Append(failedCodes, [code |-> code, error |-> PriceRuleError(outcome)]),
                          calls)
    /\ UNCHANGED <<request, uniqueCodes, mailerRequests, mailerResponses, groupId, addedCount>>
    /\ UNCHANGED HandlerRest

\* A catch that deletes the price rule of the code that failed.
DiscountsCodeSettled_Rollback ==
    /\ Routed("discounts")
    /\ hpc = "await_discount_code"
    /\ \E outcome \in DiscountCodeOutcomes :
          LET entries == ObjectEntries(uniqueCodes)
              e == entries[iter]
          IN  /\ callResults' = Append(callResults, [outcome |-> outcome, id |-> Len(calls)])
              /\ IF outcome = "ok"
                 THEN /\ createdCodes' = Append(createdCodes, e)
                      /\ calls' = Append(calls, PauseCall)
                      /\ hpc' = "await_pause"
                      /\ UNCHANGED <<failedCodes, iter, res>>
                 ELSE /\ failedCodes' = Append(failedCodes,
                              [code |-> e.code, error |-> DiscountCodeError(outcome)])
                      /\ calls' = Append(calls,
                              [to |-> "shopify", kind |-> "delete_price_rule", code |-> e.code,
                               priceRuleId |-> calls[Len(calls)].priceRuleId])
                      /\ hpc' = "await_delete"
                      /\ UNCHANGED <<createdCodes, iter, res>>
    /\ UNCHANGED <<request, uniqueCodes, mailerRequests, mailerResponses, groupId, addedCount>>
    /\ UNCHANGED HandlerRest

\* A loop without its catch: a failed discount code ends the request.
DiscountsCodeSettled_Aborts ==
    /\ Routed("discounts")
    /\ hpc = "await_discount_code"
    /\ \E outcome \in DiscountCodeOutcomes :
          LET entries == ObjectEntries(uniqueCodes)
              e == entries[iter]
          IN  /\ callResults' = Append(callResults, [outcome |-> outcome, id |-> Len(calls)])
              /\ IF outcome = "ok"
                 THEN /\ createdCodes' = Append(createdCodes, e)
                      /\ calls' = Append(calls, PauseCall)
                      /\ hpc' = "await_pause"
                      /\ UNCHANGED <<failedCodes, iter, res>>
                 ELSE /\ res' = ServerError(DiscountCodeError(outcome))
                      /\ hpc' = "responded"
                      /\ UNCHANGED <<createdCodes, failedCodes, iter, calls>>
    /\ UNCHANGED <<request, uniqueCodes, mailerRequests, mailerResponses, groupId, addedCount>>
    /\ UNCHANGED HandlerRest

\* The discount code request settles: on success the code is recorded and
\* the pause starts, otherwise the catch records the code and the loop goes on.
DiscountsCodeSettled ==
    /\ Routed("discounts")
    /\ hpc = "await_discount_code"
    /\ \E outcome \in DiscountCodeOutcomes :
          LET entries == ObjectEntries(uniqueCodes)
              e == entries[iter]
          IN  /\ callResults' = Append(callResults, [outcome |-> outcome, id |-> Len(calls)])
              /\ IF outcome = "ok"
                 THEN /\ createdCodes' = Append(createdCodes, e)
                      /\ calls' = Append(calls, PauseCall)
                      /\ hpc' = "await_pause"
                      /\ UNCHANGED <<failedCodes, iter, res>>
                 ELSE DiscountsIterate(entries, iter + 1, createdCodes,
                          Append(failedCodes,
                                 [code |-> e.code, error |-> DiscountCodeError(outcome)]),
                          calls)
    /\ UNCHANGED <<request, uniqueCodes, mailerRequests, mailerResponses, groupId, addedCount>>
    /\ UNCHANGED HandlerRest

\* The timer fires: the loop goes on.
DiscountsPauseElapsed ==
    /\ Routed("discounts")
    /\ hpc = "await_pause"
    /\ callResults' = Append(callResults, [outcome |-> "elapsed", id |-> Len(calls)])
    /\ DiscountsIterate(ObjectEntries(uniqueCodes), iter + 1, createdCodes, failedCodes, calls)
    /\ UNCHANGED <<request, uniqueCodes, mailerRequests, mailerResponses, groupId, addedCount>>
    /\ UNCHANGED HandlerRest

ApiEnvPool ==
    { [SHOPIFY_API_KEY |-> k \notin {1}, SHOPIFY_STORE |-> k \notin {2},
       MAILERLITE_API_KEY |-> k \notin {3}, OPENAI_API_KEY |-> k \notin {4},
       MAX_BATCH_CUSTOMERS |-> <<>>, MAX_CUSTOMERS_ANALYZED |-> <<>>] : k \in 0..4 }

InitDiscounts ==
    /\ route = "/api/shopify/discounts"
    /\ reqMethod = "POST"
    /\ client = "none"
    /\ env \in ApiEnvPool
    /\ body \in [recommendations :
                    {<<>>} \cup {<<rs>> : rs \in SeqsUpTo(RecommendationPool, MaxRecs)}]
    /\ hpc = "start"
    /\ uniqueCodes = <<>>
    /\ createdCodes = <<>>
    /\ failedCodes = <<>>
    /\ iter = 0
    /\ calls = <<>>
    /\ callResults = <<>>
    /\ res = NoResponse
    /\ FetchIdle
    /\ shopifyConforms = TRUE
    /\ RuleIdle
    /\ MetricsIdle
    /\ BatchLocalsIdle

NextDiscounts ==
    \/ DiscountsStart
    \/ DiscountsPriceRuleSettled
    \/ DiscountsCodeSettled
    \/ DiscountsPauseElapsed

SpecDiscounts == InitDiscounts /\ [][NextDiscounts]_vars

-----------------------------------------------------------------------------
(* POST /api/mailerlite/campaign.  A MailerLite response is [thrown, ok,     *)
(* body]: the fetch rejected, or it resolved with a 2xx (ok) or another      *)
(* status and a body that holds data.id, holds none, or is not JSON.         *)

MailerResponse(thrown, ok, bodyKind) == [thrown |-> thrown, ok |-> ok, body |-> bodyKind]

MailerOutcomes ==
    {MailerResponse(TRUE, FALSE, "none")}
        \cup {MailerResponse(FALSE, ok, b) : ok \in BOOLEAN, b \in {"id", "noId", "unreadable"}}

Selected(email, code, percent) ==
    [email |-> email, discountCode |-> code, discountPercent |-> percent]

SelectedPool ==
    { Selected(<<Email_a>>, <<Code_A>>, <<10>>),
      Selected(<<>>, <<>>, <<>>) }

\* String(rec.discountPercent ?? '')
PercentField(f) == IF IsSet(f) THEN NumToStr(f[1]) ELSE <<>>

CampaignSubscriberRequest(r, gid) ==
    [kind |-> "subscriber", email |-> r.email, groups |-> <<gid>>,
     discount_code |-> r.discountCode, discount_percent |-> PercentField(r.discountPercent)]

CampaignRequest(gid) == [kind |-> "campaign", groups |-> <<gid>>]

\* res.json({ success: true, addedCount, groupId, campaignId })
CampaignAnswer(added, gid, campaignId) ==
    [status |-> 200, success |-> TRUE, addedCount |-> added, groupId |-> gid,
     campaignId |-> campaignId]

CampaignRest == <<fetchVars, ruleVars, shopifyConforms, metricVars, env, body, bpc,
                  totalFetched, recommendations, request, uniqueCodes, createdCodes,
                  failedCodes, calls, callResults>>

\* The two checks, then the request that creates the group.
CampaignStart ==
    /\ Routed("campaign")
    /\ hpc = "start"
    /\ IF ~env.MAILERLITE_API_KEY
       THEN /\ res' = BadRequest("MailerLite API key not configured")
            /\ hpc' = "responded"
            /\ UNCHANGED mailerRequests
       ELSE IF ~IsSet(body.selectedRecommendations) \/ body.selectedRecommendations[1] = <<>>
       THEN /\ res' = BadRequest("No selected recommendations provided.")
            /\ hpc' = "responded"
            /\ UNCHANGED mailerRequests
       ELSE /\ mailerRequests' = Append(mailerRequests, [kind |-> "group"])
            /\ hpc' = "await_group"
            /\ UNCHANGED res
    /\ UNCHANGED <<mailerResponses, groupId, addedCount, iter>>
    /\ UNCHANGED CampaignRest

\* The group request settles: without a data.id in a readable body the
\* handler throws (500), with one it sends the first subscriber.
CampaignGroupSettled ==
    /\ Routed("campaign")
    /\ hpc = "await_group"
    /\ \E r \in MailerOutcomes :
          /\ mailerResponses' = Append(mailerResponses, r)
          /\ IF r.thrown \/ r.body = "unreadable"
             THEN /\ res' = ServerError("fetch failed")
                  /\ hpc' = "responded"
                  /\ UNCHANGED <<mailerRequests, groupId, addedCount, iter>>
             ELSE IF r.body = "noId"
             THEN /\ res' = ServerError("Failed to create MailerLite group")
                  /\ hpc' = "responded"
                  /\ UNCHANGED <<mailerRequests, groupId, addedCount, iter>>
             ELSE /\ \E id \in {7} : groupId' = <<id>>
                  /\ addedCount' = 0
                  /\ iter' = 1
                  /\ mailerRequests' =
                        Append(mailerRequests,
                               CampaignSubscriberRequest(body.selectedRecommendations[1][1],
                                                         groupId'[1]))
                  /\ hpc' = "await_subscriber"
                  /\ UNCHANGED res
    /\ UNCHANGED CampaignRest

\* One subscriber request settles: it is counted unless the fetch rejected;
\* then the next subscriber, or the request that creates the campaign.
CampaignSubscriberSettled ==
    /\ Routed("campaign")
    /\ hpc = "await_subscriber"
    /\ \E r \in {MailerResponse(TRUE, FALSE, "none"), MailerResponse(FALSE, TRUE, "id"),
                  MailerResponse(FALSE, FALSE, "noId")} :
          /\ mailerResponses' = Append(mailerResponses, r)
          /\ addedCount' = IF r.thrown THEN addedCount ELSE addedCount + 1
    /\ LET recs == body.selectedRecommendations[1]
       IN  IF iter < Len(recs)
           THEN /\ iter' = iter + 1
                /\ mailerRequests' =
                      Append(mailerRequests, CampaignSubscriberRequest(recs[iter + 1], groupId[1]))
                /\ UNCHANGED hpc
           ELSE /\ mailerRequests' = Append(mailerRequests, CampaignRequest(groupId[1]))
                /\ hpc' = "await_campaign"
                /\ UNCHANGED iter
    /\ UNCHANGED <<groupId, res>>
    /\ UNCHANGED CampaignRest

\* The campaign request settles: the handler reads the body and answers
\* success whatever the status was.
CampaignSettled ==
    /\ Routed("campaign")
    /\ hpc = "await_campaign"
    /\ \E r \in MailerOutcomes :
          /\ mailerResponses' = Append(mailerResponses, r)
          /\ IF r.thrown \/ r.body = "unreadable"
             THEN res' = ServerError("fetch failed")
             ELSE res' = CampaignAnswer(addedCount, groupId[1],
                                        IF r.body = "id" THEN <<9>> ELSE <<>>)
    /\ hpc' = "responded"
    /\ UNCHANGED <<mailerRequests, groupId, addedCount, iter>>
    /\ UNCHANGED CampaignRest

InitCampaign ==
    /\ route = "/api/mailerlite/campaign"
    /\ reqMethod = "POST"
    /\ client = "none"
    /\ env \in ApiEnvPool
    /\ body \in [selectedRecommendations :
                    {<<>>} \cup {<<rs>> : rs \in SeqsUpTo(SelectedPool, MaxRecs)}]
    /\ hpc = "start"
    /\ uniqueCodes = <<>>
    /\ createdCodes = <<>>
    /\ failedCodes = <<>>
    /\ iter = 0
    /\ calls = <<>>
    /\ callResults = <<>>
    /\ res = NoResponse
    /\ FetchIdle
    /\ shopifyConforms = TRUE
    /\ RuleIdle
    /\ MetricsIdle
    /\ BatchLocalsIdle

NextCampaign ==
    \/ CampaignStart
    \/ CampaignGroupSettled
    \/ CampaignSubscriberSettled
    \/ CampaignSettled

SpecCampaign == InitCampaign /\ [][NextCampaign]_vars

-----------------------------------------------------------------------------
(* GET /api/shopify/customers: the fetch of up to MAX_CUSTOMERS_ANALYZED     *)
(* customers, then the metrics reducer on each of them.                      *)

DefaultMaxCustomersAnalyzed == 1000

\* Number(process.env.MAX_CUSTOMERS_ANALYZED || '1000')
MaxCustomersAnalyzed(e) == NumOrDefault(e.MAX_CUSTOMERS_ANALYZED, DefaultMaxCustomersAnalyzed)

CustomersAnswer(rawCustomers, e) ==
    [status |-> 200,
     customers |-> [i \in DOMAIN rawCustomers |-> ToMetrics(rawCustomers[i], Now)],
     total |-> Len(rawCustomers),
     maxAnalyzed |-> MaxCustomersAnalyzed(e)]

CustomersRest == <<ruleVars, shopifyConforms, metricVars, batchVars, request, uniqueCodes,
                   createdCodes, failedCodes, iter, calls, callResults>>

\* The credential check, then the call of the fetch.
CustomersStart ==
    /\ Routed("customers")
    /\ hpc = "start"
    /\ IF ~env.SHOPIFY_API_KEY \/ ~env.SHOPIFY_STORE
       THEN /\ res' = BadRequest("Shopify credentials not configured")
            /\ hpc' = "responded"
            /\ UNCHANGED fetchVars
       ELSE /\ FetchCall(MaxCustomersAnalyzed(env))
            /\ hpc' = "fetching"
            /\ UNCHANGED <<upstream, res>>
    /\ UNCHANGED <<ruleVars, shopifyConforms, metricVars, env, body, BatchLocals, request,
                   uniqueCodes, createdCodes, failedCodes, iter, calls, callResults>>

\* The fetch threw: the handler's catch answers 500.
CustomersFetchThrown ==
    /\ Routed("customers")
    /\ hpc = "fetching"
    /\ fpc = "thrown"
    /\ res' = ServerError("Shopify API error")
    /\ hpc' = "responded"
    /\ UNCHANGED <<fetchVars, env, body, BatchLocals>>
    /\ UNCHANGED <<ruleVars, shopifyConforms, metricVars, request, uniqueCodes, createdCodes,
                   failedCodes, iter, calls, callResults>>

\* The fetch returned: the metrics of every customer, then the answer.
CustomersAfterFetch ==
    /\ Routed("customers")
    /\ hpc = "fetching"
    /\ fpc = "returned"
    /\ res' = CustomersAnswer(fetchResult, env)
    /\ hpc' = "responded"
    /\ UNCHANGED <<fetchVars, env, body, BatchLocals>>
    /\ UNCHANGED <<ruleVars, shopifyConforms, metricVars, request, uniqueCodes, createdCodes,
                   failedCodes, iter, calls, callResults>>

InitCustomers ==
    /\ route = "/api/shopify/customers"
    /\ reqMethod = "GET"
    /\ client = "none"
    /\ upstream \in SeqsUpTo(RawPool, MaxCust)
    /\ limitTotal = 0
    /\ allCustomers = <<>>
    /\ pageInfo = Null
    /\ done = FALSE
    /\ fpc = "idle"
    /\ fetchResult = <<>>
    /\ shopifyRequests = <<>>
    /\ shopifyResponses = <<>>
    /\ shopifyConforms = TRUE
    /\ env \in ApiEnvPool \cup {[e EXCEPT !.MAX_CUSTOMERS_ANALYZED = <<1>>] : e \in ApiEnvPool}
    /\ body = [none |-> TRUE]
    /\ res = NoResponse
    /\ hpc = "start"
    /\ uniqueCodes = <<>>
    /\ createdCodes = <<>>
    /\ failedCodes = <<>>
    /\ iter = 0
    /\ calls = <<>>
    /\ callResults = <<>>
    /\ RuleIdle
    /\ MetricsIdle
    /\ BatchLocalsIdle

NextCustomers ==
    \/ CustomersStart
    \/ FetchIssue
    \/ FetchReturn
    \/ FetchResponseNotOk
    \/ FetchResponseOk
    \/ CustomersFetchThrown
    \/ CustomersAfterFetch

SpecCustomers == InitCustomers /\ [][NextCustomers]_vars

-----------------------------------------------------------------------------
(* POST /api/ai/analyze and POST /api/glp1/plan.  The content of the model's *)
(* reply is <<>> when there is none, else [valid, value]: whether it parses  *)
(* as JSON, and the value it parses to.  An analysis value is a record of    *)
(* the three keys of the documented shape, each missing or of a given kind.  *)

DefaultMaxCustomersForAI == 250

Analysis(recs, projection, insights) ==
    [customerRecommendations |-> recs, campaignProjection |-> projection,
     strategicInsights |-> insights]

AnalysisPool ==
    {Analysis(r, p, i) : r \in {<<>>, <<"array">>, <<"string">>},
                         p \in {<<>>, <<"object">>}, i \in {<<>>, <<"array">>}}

NotJson == [valid |-> FALSE, value |-> Analysis(<<>>, <<>>, <<>>)]

\* How the chat completion can end: the call throws, or it resolves with a
\* content.
CompletionOutcomes ==
    {[thrown |-> TRUE, content |-> <<>>]}
        \cup {[thrown |-> FALSE, content |-> c] :
                 c \in {<<>>, <<NotJson>>} \cup {<<[valid |-> TRUE, value |-> v]>> : v \in AnalysisPool}}

\* What follows the await of the completion, in both handlers: the three
\* throws, else res.json of the parsed value.
AfterCompletion(r) ==
    IF r.thrown THEN ServerError("OpenAI API error")
    ELSE IF r.content = <<>> THEN ServerError("No content returned from OpenAI")
    ELSE IF ~r.content[1].valid THEN ServerError("OpenAI did not return valid JSON.")
    ELSE [status |-> 200, body |-> r.content[1].value]

OpenAIRest == <<fetchVars, ruleVars, shopifyConforms, metricVars, env, body, BatchLocals,
                request, uniqueCodes, createdCodes, failedCodes, iter>>

\* The two checks, the sampling, then the chat completion request.
AnalyzeStart ==
    /\ Routed("analyze")
    /\ hpc = "start"
    /\ IF ~env.OPENAI_API_KEY
       THEN /\ res' = BadRequest("OpenAI API key (OPENAI_API_KEY) not configured")
            /\ hpc' = "responded"
            /\ UNCHANGED calls
       ELSE IF ~IsSet(body.customerSegment) \/ body.customerSegment[1] = <<>>
       THEN /\ res' = BadRequest("customerSegment must be a non-empty array")
            /\ hpc' = "responded"
            /\ UNCHANGED calls
       ELSE /\ calls' = Append(calls,
                              [to |-> "openai", kind |-> "analyze",
                               segment |-> Slice(body.customerSegment[1],
                                                 DefaultMaxCustomersForAI)])
            /\ hpc' = "await_completion"
            /\ UNCHANGED res
    /\ UNCHANGED callResults
    /\ UNCHANGED OpenAIRest

AnalyzeCompletionSettled ==
    /\ Routed("analyze")
    /\ hpc = "await_completion"
    /\ \E r \in CompletionOutcomes :
          /\ callResults' = Append(callResults, r)
          /\ res' = AfterCompletion(r)
    /\ hpc' = "responded"
    /\ UNCHANGED calls
    /\ UNCHANGED OpenAIRest

\* !goal || !dailyCalories || !mealsPerDay || !days
MissingPlanFields(b) ==
    \/ ~TruthyStr(b.goal)
    \/ NumOrDefault(b.dailyCalories, 0) = 0
    \/ NumOrDefault(b.mealsPerDay, 0) = 0
    \/ NumOrDefault(b.days, 0) = 0

\* The handler registered at line 400 up to its first await: the JSON plan.
JsonPlanStart ==
    IF ~env.OPENAI_API_KEY
    THEN /\ res' = BadRequest("OpenAI API key (OPENAI_API_KEY) not configured")
         /\ hpc' = "responded"
         /\ UNCHANGED calls
    ELSE IF MissingPlanFields(body)
    THEN /\ res' = BadRequest("Missing required fields (goal, dailyCalories, mealsPerDay, days)")
         /\ hpc' = "responded"
         /\ UNCHANGED calls
    ELSE /\ calls' = Append(calls, [to |-> "openai", kind |-> "plan", days |-> body.days[1]])
         /\ hpc' = "await_completion"
         /\ UNCHANGED res

\* The handler registered at line 821 up to its first await: the HTML
\* planner, which reads every field of the body with a default.
PlannerStart ==
    IF ~env.OPENAI_API_KEY
    THEN /\ res' = BadRequest("OpenAI API key (OPENAI_API_KEY) not configured")
         /\ hpc' = "responded"
         /\ UNCHANGED calls
    ELSE /\ calls' = Append(calls, [to |-> "openai", kind |-> "planner"])
         /\ hpc' = "await_completion"
         /\ UNCHANGED res

\* What follows the await of the completion in the HTML planner.
AfterPlannerCompletion(r) ==
    IF r.thrown THEN ServerError("OpenAI API error")
    ELSE IF r.content = <<>> THEN ServerError("No content returned from OpenAI")
    ELSE [status |-> 200, planHtml |-> r.content[1]]

\* A POST to /api/glp1/plan: the router picks the handler, which runs up to
\* its first await.
PlanStart ==
    /\ Dispatch(reqMethod, route) \in {"plan", "planner"}
    /\ hpc = "start"
    /\ IF Dispatch(reqMethod, route) = "plan" THEN JsonPlanStart ELSE PlannerStart
    /\ UNCHANGED callResults
    /\ UNCHANGED OpenAIRest

PlanCompletionSettled ==
    /\ Dispatch(reqMethod, route) \in {"plan", "planner"}
    /\ hpc = "await_completion"
    /\ \E r \in CompletionOutcomes :
          /\ callResults' = Append(callResults, r)
          /\ res' = IF calls[1].kind = "plan" THEN AfterCompletion(r)
                    ELSE AfterPlannerCompletion(r)
    /\ hpc' = "responded"
    /\ UNCHANGED calls
    /\ UNCHANGED OpenAIRest

Str_goal == <<"l", "o", "s", "s">>

PlanBodies ==
    [goal : {<<>>, <<Str_goal>>}, dailyCalories : {<<>>, <<1400>>},
     mealsPerDay : {<<0>>, <<3>>}, days : {<<>>, <<7>>}]

\* customerSegment: missing, empty, one customer, one more than the sample
SegmentPool ==
    {<<>>, <<<<>>>>, <<<<1>>>>, <<[i \in 1..(DefaultMaxCustomersForAI + 1) |-> i]>>}

InitOpenAI ==
    /\ \/ /\ route = "/api/ai/analyze"
          /\ reqMethod = "POST"
          /\ client = "none"
          /\ body \in [customerSegment : SegmentPool]
       \/ /\ route = "/api/glp1/plan"
          /\ reqMethod = "POST"
          /\ client = "none"
          /\ body \in PlanBodies
    /\ env \in ApiEnvPool
    /\ hpc = "start"
    /\ uniqueCodes = <<>>
    /\ createdCodes = <<>>
    /\ failedCodes = <<>>
    /\ iter = 0
    /\ calls = <<>>
    /\ callResults = <<>>
    /\ res = NoResponse
    /\ FetchIdle
    /\ shopifyConforms = TRUE
    /\ RuleIdle
    /\ MetricsIdle
    /\ BatchLocalsIdle

NextOpenAI ==
    \/ AnalyzeStart
    \/ AnalyzeCompletionSettled
    \/ PlanStart
    \/ PlanCompletionSettled

SpecOpenAI == InitOpenAI /\ [][NextOpenAI]_vars

-----------------------------------------------------------------------------
(* GET /api/health, and a request that no registration matches *)

\* res.json({ status: 'ok', hasOpenAIKey: !!OPENAI_API_KEY, ... })
HealthAnswer(e) ==
    [status |-> 200, hasOpenAIKey |-> e.OPENAI_API_KEY, hasShopifyKey |-> e.SHOPIFY_API_KEY,
     hasShopifyStore |-> e.SHOPIFY_STORE, hasMailerliteKey |-> e.MAILERLITE_API_KEY]

RouterRest == <<fetchVars, ruleVars, shopifyConforms, metricVars, env, body, BatchLocals,
                request, uniqueCodes, createdCodes, failedCodes, iter, calls, callResults>>

Health ==
    /\ Routed("health")
    /\ hpc = "start"
    /\ res' = HealthAnswer(env)
    /\ hpc' = "responded"
    /\ UNCHANGED RouterRest

\* No registration matches the method and path of the request: the router
\* runs off the end of its stack and express answers 404.
NotFound ==
    /\ Routed("none")
    /\ hpc = "start"
    /\ res' = [status |-> 404]
    /\ hpc' = "responded"
    /\ UNCHANGED RouterRest

\* The fields each handler destructures from req.body.
Reads(handler) ==
    CASE handler = "analyze" -> {"customerSegment", "pricingStrategy", "strategyInfo"}
      [] handler = "discounts" -> {"recommendations"}
      [] handler = "campaign" -> {"campaignName", "pricingStrategy", "selectedRecommendations"}
      [] OTHER -> {}

-----------------------------------------------------------------------------
(* The requests of the two dashboards: the method, the path after the       *)
(* backend URL, and the names of the fields of the JSON body.               *)

DashboardRequest(c, method, path, fields) ==
    [client |-> c, method |-> method, path |-> path, fields |-> fields]

\* testBackendConnection, fetchShopifyCustomers, analyzeWithClaude and
\* createCampaign of dynamic-pricing-ai-frontend.jsx
FrontendRequests ==
    { DashboardRequest("frontend.jsx", "GET", "/api/health", {}),
      DashboardRequest("frontend.jsx", "GET", "/api/shopify/customers", {}),
      DashboardRequest("frontend.jsx", "POST", "/api/claude/analyze",
                       {"customerSegment", "pricingStrategy", "strategyInfo"}),
      DashboardRequest("frontend.jsx", "POST", "/api/shopify/discounts", {"recommendations"}),
      DashboardRequest("frontend.jsx", "POST", "/api/mailerlite/campaign",
                       {"campaignName", "pricingStrategy", "selectedRecommendations"}) }

\* testBackendConnection, fetchShopifyCustomers, analyzeWithAI and
\* sendMailerLiteCampaign of the second dashboard
Part001Requests ==
    { DashboardRequest("part_001", "GET", "/health", {}),
      DashboardRequest("part_001", "GET", "/api/shopify/customers", {}),
      DashboardRequest("part_001", "POST", "/api/claude/analyze",
                       {"customerSegment", "pricingStrategy", "strategyInfo"}),
      DashboardRequest("part_001", "POST", "/api/shopify/discounts", {"recommendations"}),
      DashboardRequest("part_001", "POST", "/api/mailerlite/campaign",
                       {"recommendations", "campaignName", "pricingStrategy"}) }

DashboardRequests == FrontendRequests \cup Part001Requests

BodyFields ==
    {"customerSegment", "pricingStrategy", "strategyInfo", "recommendations",
     "selectedRecommendations", "campaignName"}

\* JSON.stringify on the dashboard, express.json() on the server: req.body
\* holds the fields that were sent, any other field reads as undefined.
\* Both lists of recommendations are the dashboard's selectedRecommendations.
DashboardBody(q, selectedRecommendations) ==
    [f \in BodyFields |->
        IF f \notin q.fields THEN <<>>
        ELSE IF f \in {"recommendations", "selectedRecommendations"}
             THEN <<selectedRecommendations>>
        ELSE IF f = "customerSegment" THEN <<<<1>>>>
        ELSE <<Str_vip25>>]

\* One request of a dashboard.  The second dashboard returns before any
\* request when its selectedRecommendations is empty.
InitDashboard ==
    /\ \E q \in DashboardRequests, sel \in SeqsUpTo(SelectedPool, MaxRecs) :
          /\ q.client = "part_001" => sel # <<>>
          /\ client = q.client
          /\ reqMethod = q.method
          /\ route = q.path
          /\ body = DashboardBody(q, sel)
    /\ env \in ApiEnvPool
    /\ hpc = "start"
    /\ uniqueCodes = <<>>
    /\ createdCodes = <<>>
    /\ failedCodes = <<>>
    /\ iter = 0
    /\ calls = <<>>
    /\ callResults = <<>>
    /\ res = NoResponse
    /\ FetchIdle
    /\ shopifyConforms = TRUE
    /\ RuleIdle
    /\ MetricsIdle
    /\ BatchLocalsIdle

-----------------------------------------------------------------------------
(* The server answering one request, on any of its routes.                   *)

Init ==
    \/ InitCustomers
    \/ InitOpenAI
    \/ InitDiscounts
    \/ InitCampaign
    \/ InitBatch
    \/ InitDashboard

Next ==
    \/ Health
    \/ NotFound
    \/ CustomersStart
    \/ CustomersFetchThrown
    \/ CustomersAfterFetch
    \/ FetchIssue
    \/ FetchReturn
    \/ FetchResponseNotOk
    \/ FetchResponseOk
    \/ AnalyzeStart
    \/ AnalyzeCompletionSettled
    \/ PlanStart
    \/ PlanCompletionSettled
    \/ DiscountsStart
    \/ DiscountsPriceRuleSettled
    \/ DiscountsCodeSettled
    \/ DiscountsPauseElapsed
    \/ CampaignStart
    \/ CampaignGroupSettled
    \/ CampaignSubscriberSettled
    \/ CampaignSettled
    \/ BatchStart
    \/ BatchFetchThrown
    \/ BatchAfterFetch
    \/ BatchGroupFailed
    \/ BatchGroupCreated
    \/ BatchSubscriberDone

Spec == Init /\ [][Next]_vars

-----------------------------------------------------------------------------
(* Properties of POST /api/shopify/discounts *)

\* The codes the grouping takes from the request: non-empty, with a numeric percent.
TakenCodes ==
    IF body.recommendations = <<>> THEN {}
    ELSE {r.discountCode[1] : r \in {body.recommendations[1][i] : i \in DOMAIN body.recommendations[1]}
                                      \cap {q \in RecommendationPool :
                                               HasText(q.discountCode) /\ q.discountPercent # <<>>}}

CodesOf(list) == {list[i].code : i \in DOMAIN list}

Occurrences(list, code) == Cardinality({i \in DOMAIN list : list[i].code = code})

ValidDiscountsRequest ==
    /\ route = "/api/shopify/discounts"
    /\ env.SHOPIFY_API_KEY /\ env.SHOPIFY_STORE
    /\ body.recommendations # <<>>
    /\ body.recommendations[1] # <<>>

\* C14: with valid credentials and a non-empty recommendations array, a code
\* whose creation fails does not end the request: the loop goes on to the
\* remaining codes and the answer is a success carrying createdCodes and
\* failedCodes, every distinct code taken from the input being in exactly one
\* of the two lists.
C14_FailureDoesNotAbort ==
    (ValidDiscountsRequest /\ hpc = "responded") =>
        /\ res.status = 200
        /\ res.createdCodes = createdCodes
        /\ res.failedCodes = failedCodes
        /\ CodesOf(res.createdCodes) \cup CodesOf(res.failedCodes) = TakenCodes
        /\ \A code \in TakenCodes :
              /\ Occurrences(res.createdCodes, code) + Occurrences(res.failedCodes, code) = 1
              /\ \E i \in DOMAIN calls : calls[i].kind = "price_rule" /\ calls[i].code = code

\* the first code fails, the second one is created all the same
C14_Witness ==
    /\ ValidDiscountsRequest
    /\ hpc = "responded"
    /\ res.status = 200
    /\ Len(res.failedCodes) = 1
    /\ Len(res.createdCodes) = 1
    /\ calls[1].code = res.failedCodes[1].code
    /\ calls[Len(calls)] = PauseCall

\* C18: in the loop over the discount codes a pause of 500 ms separates every
\* two consecutive iterations, whether the earlier code was created or failed:
\* between the price rule requests of two codes in a row a 500 ms timer was
\* started and has fired.
C18_PauseBetweenIterations ==
    \A i, j \in DOMAIN calls :
        (/\ i < j
         /\ calls[i].kind = "price_rule"
         /\ calls[j].kind = "price_rule"
         /\ \A k \in (i + 1)..(j - 1) : calls[k].kind # "price_rule") =>
            \E k \in (i + 1)..(j - 1) :
                /\ calls[k] = [to |-> "timer", kind |-> "pause", ms |-> 500]
                /\ callResults[k].outcome = "elapsed"

-----------------------------------------------------------------------------
(* Properties of POST /api/mailerlite/campaign *)

\* The i-th MailerLite request was answered with a status outside 2xx.
AnsweredNon2xx(i) ==
    /\ i <= Len(mailerResponses)
    /\ ~mailerResponses[i].thrown
    /\ ~mailerResponses[i].ok

\* C17: POST /api/mailerlite/campaign answers 500 whenever MailerLite answers
\* the creation of the group or of the campaign with a non-2xx status, and
\* never answers success: true after a failed campaign creation.
C17_UpstreamFailureIs500 ==
    (route = "/api/mailerlite/campaign" /\ hpc = "responded") =>
        \A i \in DOMAIN mailerRequests :
            (mailerRequests[i].kind \in {"group", "campaign"} /\ AnsweredNon2xx(i)) =>
                res.status = 500

-----------------------------------------------------------------------------
(* Properties of POST /api/ai/analyze *)

\* customerRecommendations is an array, the two other keys are there
HasShape(v) ==
    /\ v.customerRecommendations = <<"array">>
    /\ v.campaignProjection # <<>>
    /\ v.strategicInsights # <<>>

\* C16: POST /api/ai/analyze answers 500 with a parse-failure message whenever
\* the model's reply is not JSON or is JSON that lacks the expected shape
\* (customerRecommendations array, campaignProjection, strategicInsights); a
\* 200 answer always carries an object of that shape.
C16_ShapeOr500 ==
    (route = "/api/ai/analyze" /\ hpc = "responded" /\ callResults # <<>>) =>
        LET r == callResults[1]
        IN  /\ (~r.thrown /\ r.content # <<>>
                   /\ (~r.content[1].valid \/ ~HasShape(r.content[1].value))) =>
                  res.status = 500
            /\ res.status = 200 => HasShape(res.body)

-----------------------------------------------------------------------------
(* Properties of the server as a whole *)

Responded == hpc = "responded" \/ bpc = "responded"

\* A credential the route of the request needs is not configured.
CredentialAbsent ==
    \/ /\ route \in {"/api/shopify/customers", "/api/shopify/discounts", "/api/reactivation/batch"}
       /\ ~env.SHOPIFY_API_KEY \/ ~env.SHOPIFY_STORE
    \/ /\ route \in {"/api/ai/analyze", "/api/glp1/plan"}
       /\ ~env.OPENAI_API_KEY
    \/ /\ route = "/api/mailerlite/campaign"
       /\ ~env.MAILERLITE_API_KEY
    \/ /\ route = "/api/reactivation/batch"
       /\ body.sendToMailerLite
       /\ ~env.MAILERLITE_API_KEY

\* C15: every endpoint that needs a credential answers 400 with an error
\* message when that credential is absent: the Shopify store and key for the
\* customers, discounts and batch routes, the OpenAI key for the analyze and
\* plan routes, the MailerLite key for the campaign route and for a batch
\* with sendToMailerLite.
C15_AbsentCredentialIs400 ==
    (Responded /\ CredentialAbsent) =>
        /\ res.status = 400
        /\ "error" \in DOMAIN res

\* Outbound calls issued and not yet settled.
InFlight ==
    (Len(shopifyRequests) - Len(shopifyResponses))
        + (Len(mailerRequests) - Len(mailerResponses))
        + Cardinality({i \in DOMAIN calls : i > Len(callResults) /\ calls[i].to # "timer"})

\* C19: while one inbound request is handled at most one outbound call to
\* Shopify, MailerLite or OpenAI is in flight, and the calls start in program
\* order, each one only after the one before it has settled: a discount code
\* request right after the successful price rule request of the same code,
\* the MailerLite group request first and only after every Shopify page.
C19_OneCallInFlight ==
    /\ InFlight <= 1
    /\ \A i \in DOMAIN calls :
          calls[i].kind = "discount_code" =>
              /\ i > 1
              /\ calls[i - 1].kind = "price_rule"
              /\ calls[i - 1].code = calls[i].code
              /\ callResults[i - 1].outcome = "ok"
    /\ mailerRequests # <<>> =>
          /\ mailerRequests[1].kind = "group"
          /\ Len(shopifyRequests) = Len(shopifyResponses)
          /\ \A i \in 2..Len(mailerRequests) : i - 1 <= Len(mailerResponses)

\* a batch whose subscriber request is out, the pages and the group settled
C19_Witness ==
    /\ route = "/api/reactivation/batch"
    /\ Len(shopifyResponses) >= 1
    /\ Len(mailerRequests) = 2
    /\ Len(mailerResponses) = 1
    /\ InFlight = 1

-----------------------------------------------------------------------------
(* Properties of POST /api/glp1/plan *)

PlanAnswered ==
    /\ route = "/api/glp1/plan"
    /\ env.OPENAI_API_KEY
    /\ hpc = "responded"

-----------------------------------------------------------------------------
(* More properties of the pagination fetcher *)

\* C22: the pagination loop is bounded: for every limit_total and every
\* sequence of successful responses, pages of zero records with a rel="next"
\* cursor included, the function returns after finitely many requests.  The
\* loop test reads allCustomers, pageInfo and done only, so it can be bounded
\* only if no answered request leaves the three as they were before it.
C22_LoopBounded ==
    [][(fpc = "await" /\ fpc' = "loop")
          => <<allCustomers', pageInfo', done'>> # <<allCustomers, pageInfo, done>>]_vars

RECURSIVE Accumulated(_)
\* Records received before request i.
Accumulated(i) == IF i <= 1 THEN 0 ELSE Accumulated(i - 1) + shopifyResponses[i - 1].n

\* C23: every request of the fetch asks for limit = min(250, limit_total -
\* records accumulated so far), a value in 1..250; the first request carries
\* no page_info and every later request carries exactly the cursor of the
\* rel="next" link of the response just before it.
C23_RequestLimitAndCursor ==
    \A i \in DOMAIN shopifyRequests :
        LET req == shopifyRequests[i]
        IN  /\ req.limit = Min(250, limitTotal - Accumulated(i))
            /\ req.limit \in 1..250
            /\ i = 1 => req.page_info = Null
            /\ i > 1 =>
                  LET link == shopifyResponses[i - 1].link
                      nexts == {j \in DOMAIN link.links : link.links[j].rel = "next"}
                  IN  /\ shopifyResponses[i - 1].ok
                      /\ link.present
                      /\ nexts # {}
                      /\ req.page_info # Null
                      /\ req.page_info =
                            link.links[CHOOSE j \in nexts : \A k \in nexts : j <= k].page_info

\* a full first page, then the rest of the limit asked of the cursor
C23_Witness ==
    /\ Len(shopifyRequests) = 2
    /\ shopifyRequests[1].limit = 250
    /\ shopifyRequests[2].limit = 1
    /\ shopifyRequests[2].page_info = 250
    /\ limitTotal = 251

-----------------------------------------------------------------------------
(* More properties of POST /api/shopify/discounts *)

\* Call i created a price rule / a discount code.
PriceRuleCreated(i) ==
    /\ i \in DOMAIN callResults
    /\ calls[i].kind = "price_rule"
    /\ callResults[i].outcome = "ok"

DiscountCodeCreated(i) ==
    /\ i \in DOMAIN callResults
    /\ calls[i].kind = "discount_code"
    /\ callResults[i].outcome = "ok"

\* The price rules Shopify holds: those created and not deleted since.
PriceRulesInShopify ==
    {callResults[i].id : i \in {j \in DOMAIN callResults : PriceRuleCreated(j)}}
        \ {calls[i].priceRuleId : i \in {j \in DOMAIN calls : calls[j].kind = "delete_price_rule"}}

\* C24: POST /api/shopify/discounts performs no rollback: when the price rule
\* of a code was created and the discount code request that follows fails,
\* the code is reported in failedCodes, no delete request is ever issued and
\* the price rule stays in Shopify; a code in createdCodes always has both a
\* price rule and a discount code.
C24_NoRollback ==
    /\ \A i \in DOMAIN calls : calls[i].kind \in {"price_rule", "discount_code", "pause"}
    /\ \A i \in DOMAIN callResults :
          (calls[i].kind = "discount_code" /\ callResults[i].outcome # "ok") =>
              /\ calls[i].code \in CodesOf(failedCodes)
              /\ calls[i].code \notin CodesOf(createdCodes)
              /\ PriceRuleCreated(i - 1)
              /\ calls[i].priceRuleId = callResults[i - 1].id
              /\ calls[i].priceRuleId \in PriceRulesInShopify
    /\ \A c \in DOMAIN createdCodes :
          \E i \in DOMAIN callResults :
              /\ PriceRuleCreated(i)
              /\ calls[i].code = createdCodes[c].code
              /\ DiscountCodeCreated(i + 1)
              /\ calls[i + 1].code = createdCodes[c].code
              /\ calls[i + 1].priceRuleId = callResults[i].id

\* the answer reports a code whose price rule is left in Shopify
C24_Witness ==
    /\ hpc = "responded"
    /\ res.status = 200
    /\ \E i \in DOMAIN callResults :
          /\ calls[i].kind = "discount_code"
          /\ callResults[i].outcome = "not_ok"
          /\ calls[i].code \in CodesOf(res.failedCodes)
          /\ calls[i].priceRuleId \in PriceRulesInShopify
    /\ Len(res.createdCodes) = 1

\* The percentage of the first recommendation of the request that carries
\* the code with a numeric percent (the code is one of TakenCodes).
FirstPercent(code) ==
    LET recs == body.recommendations[1]
        idx == {i \in DOMAIN recs :
                   recs[i].discountCode = <<code>> /\ recs[i].discountPercent # <<>>}
    IN  recs[CHOOSE i \in idx : \A j \in idx : i <= j].discountPercent[1]

\* C25: within one request the recommendations are grouped by discountCode:
\* each distinct code gets at most one price rule request and at most one
\* discount code request, with the percentage of the first recommendation
\* that carries the code; a recommendation without a code or with a
\* non-numeric discountPercent causes no Shopify call.
C25_GroupedByCode ==
    /\ \A i, j \in DOMAIN calls :
          (calls[i].to = "shopify" /\ calls[j].to = "shopify" /\ calls[i].kind = calls[j].kind
              /\ calls[i].code = calls[j].code) => i = j
    /\ \A i \in DOMAIN calls :
          calls[i].to = "shopify" => calls[i].code \in TakenCodes
    /\ \A i \in DOMAIN calls :
          calls[i].kind = "price_rule" =>
              calls[i].value = <<"-">> \o NumToStr(FirstPercent(calls[i].code))

-----------------------------------------------------------------------------
(* The subscriber loops of the two MailerLite handlers *)

\* The subscriber requests MailerLite accepted (answered with a 2xx status).
AcceptedByCampaign ==
    {i \in DOMAIN mailerResponses :
        /\ mailerRequests[i].kind = "subscriber"
        /\ ~mailerResponses[i].thrown
        /\ mailerResponses[i].ok}

AcceptedByBatch ==
    {i \in DOMAIN mailerResponses :
        mailerRequests[i].kind = "subscriber" /\ mailerResponses[i] = "accepted"}

\* C26: in the subscriber loops of POST /api/mailerlite/campaign and POST
\* /api/reactivation/batch a failed add request (thrown, or answered with a
\* non-2xx status) is not counted: the addedCount of the answer equals the
\* number of subscribers MailerLite actually accepted.
C26_AddedCountIsAccepted ==
    /\ (route = "/api/mailerlite/campaign" /\ hpc = "responded" /\ res.status = 200) =>
          res.addedCount = Cardinality(AcceptedByCampaign)
    /\ (route = "/api/reactivation/batch" /\ bpc = "responded" /\ res.status = 200
            /\ res.mailerLiteResult # <<>>) =>
          res.mailerLiteResult[1].addedCount = Cardinality(AcceptedByBatch)

-----------------------------------------------------------------------------
(* The range of the discounts handed on *)

\* The price rule values of a percentage within 0..40: "-0" .. "-40".
ReasonableValues == {<<"-">> \o NumToStr(p) : p \in 0..40}

\* C27: every discount handed on has a percentage within 0-40: no
\* recommendation kept by POST /api/reactivation/batch and no price rule
\* created by POST /api/shopify/discounts carries a discountPercent above
\* 40, whatever the request supplies.
C27_PercentWithinRange ==
    /\ \A i \in DOMAIN recommendations :
          Gte(recommendations[i].discountPercent, 0) /\ Lte(recommendations[i].discountPercent, 40)
    /\ \A i \in DOMAIN calls :
          calls[i].kind = "price_rule" => calls[i].value \in ReasonableValues

-----------------------------------------------------------------------------
(* Customers whose last-order timestamp lies in the future *)

\* The batch handler has mapped and matched the customers it fetched.
BatchMatched ==
    /\ route = "/api/reactivation/batch"
    /\ fpc = "returned"
    /\ bpc \in {"group", "subscriber", "responded"}

\* Positions of the fetched customers whose timestamp is later than now.
FutureCustomers ==
    {i \in DOMAIN fetchResult :
        LET c == fetchResult[i]
            ts == IF IsSet(c.updated_at) THEN c.updated_at ELSE c.created_at
        IN  IsSet(ts) /\ ts[1] # NaN /\ ts[1] > Now}

NonNegativeMin(tier) ==
    ~IsSet(tier.minDaysSinceLastOrder) \/ tier.minDaysSinceLastOrder[1] >= 0

Received(r) == \E k \in DOMAIN recommendations : recommendations[k] = r

NoneFor(id) == \A k \in DOMAIN recommendations : recommendations[k].customerId # id

\* C28 as stated: a customer whose timestamp is in the future gets a
\* negative daysSinceLastOrder, matches no tier whose minDaysSinceLastOrder
\* is unset or at least 0, and in the batch receives the default tier's
\* recommendation when a default exists and none otherwise.
C28_FutureGetsDefault ==
    BatchMatched =>
        \A i \in FutureCustomers :
            LET c == ToMetrics(fetchResult[i], Now)
                cfg == body.ruleConfig[1]
            IN  /\ c.daysSinceLastOrder < 0
                /\ \A t \in DOMAIN cfg.tiers :
                      NonNegativeMin(cfg.tiers[t]) => ~TierMatches(c, cfg.tiers[t])
                /\ (\A t \in DOMAIN cfg.tiers : NonNegativeMin(cfg.tiers[t])) =>
                      IF IsSet(cfg.default)
                      THEN Received(DefaultRecommendation(c, cfg.default[1]))
                      ELSE NoneFor(c.id)

\* C28: a customer whose timestamp is in the future gets a negative
\* daysSinceLastOrder and matches no tier whose minDaysSinceLastOrder is
\* unset or at least 0; in the batch, when every tier is such a tier, it
\* receives the default tier's recommendation when a default exists, the
\* default's discountPercent is above 0 and the customer has an email, and
\* no recommendation otherwise.
C28_FutureGetsKeptDefault ==
    BatchMatched =>
        \A i \in FutureCustomers :
            LET c == ToMetrics(fetchResult[i], Now)
                cfg == body.ruleConfig[1]
            IN  /\ c.daysSinceLastOrder < 0
                /\ \A t \in DOMAIN cfg.tiers :
                      NonNegativeMin(cfg.tiers[t]) => ~TierMatches(c, cfg.tiers[t])
                /\ (\A t \in DOMAIN cfg.tiers : NonNegativeMin(cfg.tiers[t])) =>
                      IF /\ IsSet(cfg.default)
                         /\ Gt(NumOrDefault(cfg.default[1].discountPercent, 0), 0)
                         /\ TruthyStr(c.email)
                      THEN Received(DefaultRecommendation(c, cfg.default[1]))
                      ELSE NoneFor(c.id)

\* a future-dated customer with an email went past the tiers of the config
\* and got the default's 30 percent
C28_Witness ==
    /\ BatchMatched
    /\ bpc = "responded"
    /\ res.status = 200
    /\ body.ruleConfig[1].tiers # <<>>
    /\ \E i \in FutureCustomers :
          /\ ToMetrics(fetchResult[i], Now).daysSinceLastOrder = 0 - 2
          /\ \E k \in DOMAIN recommendations :
                /\ recommendations[k].customerId = fetchResult[i].id
                /\ recommendations[k].discountPercent = 30
                /\ recommendations[k].rationale = "Default rule applied."

-----------------------------------------------------------------------------
(* Validation and outbound calls *)

\* C30: a request answered with 400 has issued no outbound call before the
\* answer: the checks that produce a 400 come before the first request to
\* Shopify, MailerLite or OpenAI, in POST /api/reactivation/batch with
\* sendToMailerLite and no MailerLite key too.
C30_BadRequestBeforeAnyCall ==
    (Responded /\ res.status = 400) =>
        /\ shopifyRequests = <<>>
        /\ mailerRequests = <<>>
        /\ calls = <<>>

-----------------------------------------------------------------------------
(* The dashboards against the routes of the server *)

\* C29: every request a dashboard issues, once answered, was to a method and
\* path the backend registers (so it is never answered 404) and carried, under the names
\* the handler reads, the body fields of that handler: the analyse request
\* reaches POST /api/ai/analyze and the campaign request supplies
\* selectedRecommendations.
C29_DashboardMatchesBackend ==
    (client # "none" /\ hpc = "responded") =>
        /\ Dispatch(reqMethod, route) # "none"
        /\ res.status # 404
        /\ \A f \in Reads(Dispatch(reqMethod, route)) : IsSet(body[f])

====
